---------------------------- MODULE Spec2Model ----------------------------
(***************************************************************************)
(* A model of the ray tracer: the hit-test contract (Hittable, Offset,     *)
(* Sphere, HittableList), axis-aligned bounding boxes, the bounding volume *)
(* hierarchy (Bvh::new, Bvh::hit_origin), HitRecord::face_normal, and the  *)
(* renderer (Raytracer::render_multithreaded, Raytracer::ray_color).       *)
(*                                                                         *)
(* f32 values are modelled by integers plus the special values PInf, NInf *)
(* and NaN, and TMin for the literal 0.001, which is only ever compared.   *)
(* Every other finite value the model computes is a small integer, which   *)
(* f32 represents exactly, and every division and square root the model    *)
(* performs is exact (ExactDiv and ExactSqrt have no value otherwise), so  *)
(* the arithmetic below is the arithmetic of the program on these inputs.  *)
(***************************************************************************)
EXTENDS Integers, Sequences, FiniteSets, TLC

VARIABLES
    \* ---- scene construction, Bvh::new and hit tests
    world,      \* the HittableList under construction / under test
    bvh,        \* outcome of Bvh::new on world: <<>> before the call
    probe,      \* the last hit test: ray, window, list answer, Bvh answer
    \* ---- HitRecord::from_ray
    face,       \* the last call of HitRecord::from_ray
    \* ---- bounding boxes
    boxes,      \* the last bounding boxes computed
    \* ---- Raytracer::render
    cfg,        \* the Raytracer fields (image size, samples, depth, ...)
    option,     \* HittableListOptions chosen by render_multithreaded
    colors,     \* the pixel buffer
    claimed,    \* pixel index -> the thread whose closure invocation got it
    writers,    \* pixel index -> set of threads that wrote the slot
    thr,        \* per thread: closure position, pixel index, accumulators
    rng,        \* per thread: state of its thread-local generator
    phase,      \* position of render: "new", "bvh", "pixels", "done", "panic"
    first,      \* buffer returned by the previous render of the same scene
    \* ---- Raytracer::ray_color, one call at a time
    rc,         \* call stack of ray_color for one camera ray
    \* ---- single calls
    sur,        \* the last calls of Aabb::surrounding on three boxes
    slab,       \* the last call of Aabb::hit
    ht,         \* the last call of Hittable::hit and of bounding_box
    metal,      \* the last Metal constructed
    px          \* the pixel coordinates computed for the indices of a buffer

bvhVars    == <<world, bvh, probe>>
faceVars   == <<face>>
boxVars    == <<boxes>>
renderVars == <<cfg, option, colors, claimed, writers, thr, rng, phase, first>>
rcVars     == <<rc>>
callVars   == <<sur, slab, ht, metal, px>>
vars == <<world, bvh, probe, face, boxes, cfg, option, colors, claimed,
          writers, thr, rng, phase, first, rc, sur, slab, ht, metal, px>>

---------------------------------------------------------------------------
(* f32 *)

\* f32::INFINITY, as used for t_max by ray_color
PInf == 1000000
NInf == -PInf
\* f32::NAN : the value partial_cmp cannot order
NaN == 9999999

\* the literal 0.001, the t_min of ray_color.  It is only ever compared, and
\* every other finite value is an integer, so all that matters of it is that
\* 0 < 0.001 < 1: Ord2 puts it between 0 and 1.
TMin == 7777777

\* the literal 0.0001, the half thickness of a Rectangle's box and the step
\* ConstantMedium takes past its first hit.  It is added to and subtracted
\* from integers, never multiplied with itself: n + k * 0.0001 is the integer
\* n + k * Thin, for integers n far smaller than Thin and a handful of k.
Thin == 100000
Thins(x) == (x + Thin \div 2) \div Thin
Whole(x) == x - Thin * Thins(x)

\* the order of the finite values, on a scale of eighths:
\* n - 0.0001 < n < n + 0.0001 < n + 0.001 < n + 1
Ord2(x) ==
    IF x = TMin THEN 4
    ELSE IF x = PInf \/ x = NInf THEN 8 * x
    ELSE 8 * Whole(x) + Thins(x)

IsNaN(x) == x = NaN
IsFinite(x) == x # NaN /\ x # PInf /\ x # NInf
Sign(x) == IF x < 0 THEN -1 ELSE 1
Abs(x) == IF x < 0 THEN -x ELSE x

\* the quotient when it is an integer; no value (TLC stops) when it is not
ExactDiv(a, b) ==
    IF Abs(a) % Abs(b) = 0
    THEN Sign(a) * Sign(b) * (Abs(a) \div Abs(b))
    ELSE CHOOSE q \in {} : q * b = a

\* the square root when it is an integer; no value (TLC stops) when it is not
ExactSqrt(n) == CHOOSE s \in 0..n : s * s = n

FNeg(x) == IF x = NaN THEN NaN ELSE -x

FAdd(x, y) ==
    IF x = NaN \/ y = NaN THEN NaN
    ELSE IF x = PInf THEN (IF y = NInf THEN NaN ELSE PInf)
    ELSE IF x = NInf THEN (IF y = PInf THEN NaN ELSE NInf)
    ELSE IF y = PInf \/ y = NInf THEN y
    ELSE x + y

FSub(x, y) == FAdd(x, FNeg(y))

FMul(x, y) ==
    IF x = NaN \/ y = NaN THEN NaN
    ELSE IF ~IsFinite(x) \/ ~IsFinite(y)
         THEN (IF x = 0 \/ y = 0 THEN NaN
               ELSE IF Sign(x) * Sign(y) > 0 THEN PInf ELSE NInf)
    ELSE x * y

FDiv(x, y) ==
    IF x = NaN \/ y = NaN THEN NaN
    ELSE IF ~IsFinite(x)
         THEN (IF ~IsFinite(y) THEN NaN
               ELSE IF Sign(x) * Sign(y) > 0 THEN PInf ELSE NInf)
    ELSE IF ~IsFinite(y) THEN 0
    ELSE IF y = 0 THEN (IF x = 0 THEN NaN ELSE IF x > 0 THEN PInf ELSE NInf)
    ELSE ExactDiv(x, y)

\* comparisons: false as soon as an operand is NaN
FLt(x, y) == x # NaN /\ y # NaN /\ Ord2(x) < Ord2(y)
FGt(x, y) == FLt(y, x)
FLe(x, y) == x # NaN /\ y # NaN /\ Ord2(x) <= Ord2(y)

\* f32::min, f32::max: the other operand when one is NaN
FMin(x, y) == IF x = NaN THEN y ELSE IF y = NaN THEN x ELSE IF FLt(x, y) THEN x ELSE y
FMax(x, y) == IF x = NaN THEN y ELSE IF y = NaN THEN x ELSE IF FGt(x, y) THEN x ELSE y

FAbsF(x) == IF x = NaN THEN NaN ELSE Abs(x)

FSqrt(x) ==
    IF x = NaN THEN NaN
    ELSE IF x = PInf THEN PInf
    ELSE IF x < 0 THEN NaN
    ELSE ExactSqrt(x)

\* a variant of partial_cmp that orders NaN as equal to everything
partial_cmp_total(x, y) ==
    IF x = NaN \/ y = NaN THEN "Equal"
    ELSE IF x < y THEN "Less"
    ELSE IF x = y THEN "Equal"
    ELSE "Greater"

\* f32::partial_cmp
partial_cmp(x, y) ==
    IF x = NaN \/ y = NaN THEN "None"
    ELSE IF x < y THEN "Less"
    ELSE IF x = y THEN "Equal"
    ELSE "Greater"

---------------------------------------------------------------------------
(* Vector3<f32> *)

Axes == 1..3

VAdd(a, b) == [k \in Axes |-> FAdd(a[k], b[k])]
VSub(a, b) == [k \in Axes |-> FSub(a[k], b[k])]
VNeg(a) == [k \in Axes |-> FNeg(a[k])]
VScale(s, a) == [k \in Axes |-> FMul(s, a[k])]
VDivS(a, s) == [k \in Axes |-> FDiv(a[k], s)]
Dot(a, b) == FAdd(FAdd(FMul(a[1], b[1]), FMul(a[2], b[2])), FMul(a[3], b[3]))
NormSquared(a) == Dot(a, a)
Zero3 == <<0, 0, 0>>

\* Rotation3<f32> * vector: a rotation is its matrix, a tuple of three rows
RotMul(m, a) == [k \in Axes |-> Dot(m[k], a)]
\* Rotation3::inverse: the transpose
RotInverse(m) == [k \in Axes |-> [l \in Axes |-> m[l][k]]]

---------------------------------------------------------------------------
(* Ray *)

\* Ray::new
Ray_new(origin, direction) == [origin |-> origin, direction |-> direction, time |-> 0]
\* Ray::with_time
Ray_with_time(ray, time) == [ray EXCEPT !.time = time]
\* Ray::at
Ray_at(ray, t) == VAdd(ray.origin, VScale(t, ray.direction))

---------------------------------------------------------------------------
(* HitRecord.  Option<T> is a sequence: <<>> for None, <<x>> for Some(x). *)

None == <<>>
Some(x) == <<x>>
IsSome(o) == o # <<>>
Unwrap(o) == o[1]

\* a variant of HitRecord::face_normal that never flips the normal
face_normal_noflip(ray, outward_normal) ==
    <<FLt(Dot(ray.direction, outward_normal), 0), outward_normal>>

\* HitRecord::face_normal
face_normal(ray, outward_normal) ==
    LET front_face == FLt(Dot(ray.direction, outward_normal), 0)
        normal == IF front_face THEN outward_normal ELSE VNeg(outward_normal)
    IN  <<front_face, normal>>

\* HitRecord::from_ray (u, v are carried by no operation modelled here)
HitRecord_from_ray(point, normal, t, material, ray) ==
    LET fn == face_normal(ray, normal)
    IN  [point |-> point, normal |-> fn[2], t |-> t,
         front_face |-> fn[1], material |-> material]

---------------------------------------------------------------------------
(* Offset, and the Hittable trait's provided methods.                      *)
(* A Hittable is a record with a type ("Sphere", "List", "Bvh") and a      *)
(* center, its Offset.                                                     *)

\* Offset::new
Offset_new(offset) == [offset_start |-> offset, rotation |-> None, moving |-> None]
\* Offset::with_rotation
Offset_with_rotation(c, rotation) == [c EXCEPT !.rotation = Some(rotation)]
\* Offset::moving
Offset_moving(c, offset_end, time_start, time_end) ==
    [c EXCEPT !.moving = Some([offset_end |-> offset_end,
                               time_start |-> time_start, time_end |-> time_end])]

\* Offset::offset
Offset_offset(c, time) ==
    IF IsSome(c.moving)
    THEN LET moving == Unwrap(c.moving)
         IN  VAdd(c.offset_start,
                  VScale(FDiv(FSub(time, moving.time_start),
                              FSub(moving.time_end, moving.time_start)),
                         VSub(moving.offset_end, c.offset_start)))
    ELSE c.offset_start

\* Aabb::new
Aabb_new(minimum, maximum) == [minimum |-> minimum, maximum |-> maximum]

\* a variant of Aabb::surrounding that keeps the maximum of the first box
Aabb_surrounding_first_maximum(a, b) ==
    [minimum |-> [k \in Axes |-> FMin(a.minimum[k], b.minimum[k])],
     maximum |-> a.maximum]

\* Aabb::surrounding
Aabb_surrounding(a, b) ==
    [minimum |-> [k \in Axes |-> FMin(a.minimum[k], b.minimum[k])],
     maximum |-> [k \in Axes |-> FMax(a.maximum[k], b.maximum[k])]]

\* a variant of the loop body of Aabb::hit that returns false only when
\* t_max < t_min
Aabb_hit_axis_strict(aabb, ray, t_min, t_max, k) ==
    LET inverse_distance == FDiv(1, ray.direction[k])
        a0 == FMul(FSub(aabb.minimum[k], ray.origin[k]), inverse_distance)
        a1 == FMul(FSub(aabb.maximum[k], ray.origin[k]), inverse_distance)
        t0 == IF FLt(inverse_distance, 0) THEN a1 ELSE a0
        t1 == IF FLt(inverse_distance, 0) THEN a0 ELSE a1
        t_min_k == IF FGt(t0, t_min) THEN t0 ELSE t_min
        t_max_k == IF FLt(t1, t_max) THEN t1 ELSE t_max
    IN  ~FLt(t_max_k, t_min_k)

\* One pass of the loop body of Aabb::hit, for one axis.  The bindings
\* `let t_min`, `let t_max` of the body shadow the parameters inside the body
\* only: every pass starts from the parameters.
Aabb_hit_axis(aabb, ray, t_min, t_max, k) ==
    LET inverse_distance == FDiv(1, ray.direction[k])
        a0 == FMul(FSub(aabb.minimum[k], ray.origin[k]), inverse_distance)
        a1 == FMul(FSub(aabb.maximum[k], ray.origin[k]), inverse_distance)
        t0 == IF FLt(inverse_distance, 0) THEN a1 ELSE a0
        t1 == IF FLt(inverse_distance, 0) THEN a0 ELSE a1
        t_min_k == IF FGt(t0, t_min) THEN t0 ELSE t_min
        t_max_k == IF FLt(t1, t_max) THEN t1 ELSE t_max
    IN  ~FLe(t_max_k, t_min_k)

\* Aabb::hit: false at the first axis whose pass returns false
Aabb_hit(aabb, ray, t_min, t_max) ==
    \A k \in Axes : Aabb_hit_axis(aabb, ray, t_min, t_max, k)

RECURSIVE hit_origin(_, _, _, _)
RECURSIVE bounding_box_origin(_, _, _)

\* Offset::hit, first half: the ray moved into the frame of the hittable
Offset_hit_ray(c, ray) ==
    LET rotated_ray ==
            IF IsSome(c.rotation)
            THEN Ray_with_time(Ray_new(RotMul(Unwrap(c.rotation), ray.origin),
                                       RotMul(Unwrap(c.rotation), ray.direction)),
                               ray.time)
            ELSE ray
    IN  Ray_with_time(Ray_new(VSub(rotated_ray.origin,
                                   Offset_offset(c, rotated_ray.time)),
                              rotated_ray.direction),
                      rotated_ray.time)

\* a variant of the second half that moves the point back by offset_start,
\* whatever the time of the ray
Offset_hit_record_start(c, ray, hit_record_option) ==
    IF IsSome(hit_record_option)
    THEN LET hr == Unwrap(hit_record_option)
             moved == VAdd(hr.point, c.offset_start)
         IN  IF IsSome(c.rotation)
             THEN Some([hr EXCEPT
                    !.point = RotMul(RotInverse(Unwrap(c.rotation)), moved),
                    !.normal = RotMul(RotInverse(Unwrap(c.rotation)), hr.normal)])
             ELSE Some([hr EXCEPT !.point = moved])
    ELSE None

\* Offset::hit, second half: the record of hit_origin moved back
Offset_hit_record(c, ray, hit_record_option) ==
    IF IsSome(hit_record_option)
    THEN LET hr == Unwrap(hit_record_option)
             moved == VAdd(hr.point, Offset_offset(c, ray.time))
         IN  IF IsSome(c.rotation)
             THEN Some([hr EXCEPT
                    !.point = RotMul(RotInverse(Unwrap(c.rotation)), moved),
                    !.normal = RotMul(RotInverse(Unwrap(c.rotation)), hr.normal)])
             ELSE Some([hr EXCEPT !.point = moved])
    ELSE None

\* Offset::hit
Offset_hit(c, hittable, ray, t_min, t_max) ==
    Offset_hit_record(c, ray, hit_origin(hittable, Offset_hit_ray(c, ray), t_min, t_max))

\* Offset::bounding_box, the box of bounding_box_origin rotated and moved
Offset_bounding_box_of(c, aabb_option, time0, time1) ==
    IF IsSome(aabb_option)
    THEN LET aabb == Unwrap(aabb_option)
             rmin == IF IsSome(c.rotation)
                     THEN RotMul(Unwrap(c.rotation), aabb.minimum)
                     ELSE aabb.minimum
             rmax == IF IsSome(c.rotation)
                     THEN RotMul(Unwrap(c.rotation), aabb.maximum)
                     ELSE aabb.maximum
         IN  Some([minimum |-> VAdd(rmin, Offset_offset(c, time0)),
                   maximum |-> VAdd(rmax, Offset_offset(c, time1))])
    ELSE None

\* Offset::bounding_box
Offset_bounding_box(c, hittable, time0, time1) ==
    Offset_bounding_box_of(c, bounding_box_origin(hittable, time0, time1), time0, time1)

\* Hittable::hit
Hittable_hit(h, ray, t_min, t_max) == Offset_hit(h.center, h, ray, t_min, t_max)

\* Hittable::bounding_box
Hittable_bounding_box(h, time0, time1) == Offset_bounding_box(h.center, h, time0, time1)

\* Hittable::cmp_box, given the two boxes; "Panic" is the panic of unwrap()
\* on a missing box or of expect("NaN encountered").
cmp_box_of(box1, box2, axis) ==
    IF ~IsSome(box1) \/ ~IsSome(box2) THEN "Panic"
    ELSE IF partial_cmp(Unwrap(box1).minimum[axis], Unwrap(box2).minimum[axis]) = "None"
         THEN "Panic"
         ELSE partial_cmp(Unwrap(box1).minimum[axis], Unwrap(box2).minimum[axis])

\* Hittable::cmp_box.  axis is 1, 2, 3 for the 0, 1, 2 of the source.
cmp_box(a, b, axis) ==
    cmp_box_of(Hittable_bounding_box(a, 0, 0), Hittable_bounding_box(b, 0, 0), axis)

---------------------------------------------------------------------------
(* Sphere *)

\* Sphere::new
Sphere_new(center, radius, material) ==
    [type |-> "Sphere", center |-> Offset_new(center), radius |-> radius,
     material |-> material]

\* Movable::with_rotation, Movable::moving
Movable_with_rotation(h, rotation) == [h EXCEPT !.center = Offset_with_rotation(h.center, rotation)]
Movable_moving(h, offset_end, time_start, time_end) ==
    [h EXCEPT !.center = Offset_moving(h.center, offset_end, time_start, time_end)]

\* Sphere::hit_origin
Sphere_hit_origin(s, ray, t_min, t_max) ==
    LET oc == ray.origin
        a == NormSquared(ray.direction)
        b_halves == Dot(oc, ray.direction)
        c == FSub(NormSquared(oc), FMul(s.radius, s.radius))
        discriminant == FSub(FMul(b_halves, b_halves), FMul(a, c))
    IN  IF FLt(discriminant, 0) THEN None
        ELSE
        LET discriminant_sqrt == FSqrt(discriminant)
            root1 == FDiv(FSub(FNeg(b_halves), discriminant_sqrt), a)
            root2 == FDiv(FAdd(FNeg(b_halves), discriminant_sqrt), a)
            out1 == FLt(root1, t_min) \/ FGt(root1, t_max)
            out2 == FLt(root2, t_min) \/ FGt(root2, t_max)
        IN  IF out1 /\ out2 THEN None
            ELSE LET root == IF out1 THEN root2 ELSE root1
                     point == Ray_at(ray, root)
                     normal == VDivS(point, s.radius)
                 IN  Some(HitRecord_from_ray(point, normal, root, s.material, ray))

\* Sphere::bounding_box_origin
Sphere_bounding_box_origin(s) ==
    LET r == FAbsF(s.radius)
    IN  Some(Aabb_new(VNeg(<<r, r, r>>), <<r, r, r>>))

---------------------------------------------------------------------------
(* Rectangle *)

\* Plane::axes.  The axes are 1, 2, 3 for the 0, 1, 2 of the source.
Plane_axes(orientation) ==
    CASE orientation = "XY" -> <<1, 2, 3>>
      [] orientation = "YZ" -> <<2, 3, 1>>
      [] orientation = "XZ" -> <<1, 3, 2>>

\* Rectangle::new; xy, yz and xz are new with the orientation fixed
Rectangle_new(orientation, center, width, height, material) ==
    [type |-> "Rectangle", orientation |-> orientation, center |-> Offset_new(center),
     width |-> width, height |-> height, material |-> material]

\* Rectangle::hit_origin
Rectangle_hit_origin(s, ray, t_min, t_max) ==
    LET a_index == Plane_axes(s.orientation)[1]
        b_index == Plane_axes(s.orientation)[2]
        c_index == Plane_axes(s.orientation)[3]
        a_min == FDiv(FNeg(s.width), 2)
        a_max == FDiv(s.width, 2)
        b_min == FDiv(FNeg(s.height), 2)
        b_max == FDiv(s.height, 2)
        t == FDiv(FNeg(ray.origin[c_index]), ray.direction[c_index])
    IN  IF FLt(t, t_min) \/ FGt(t, t_max) THEN None
        ELSE
        LET point == Ray_at(ray, t)
            a == point[a_index]
            b == point[b_index]
        IN  IF FLt(a, a_min) \/ FGt(a, a_max) \/ FLt(b, b_min) \/ FGt(b, b_max)
            THEN None
            ELSE Some(HitRecord_from_ray(point, [k \in Axes |-> IF k = c_index THEN 1 ELSE 0],
                                         t, s.material, ray))

\* Rectangle::bounding_box_origin
Rectangle_bounding_box_origin(s) ==
    Some(Aabb_new(VNeg(<<FDiv(s.width, 2), FDiv(s.height, 2), Thin>>),
                  <<FDiv(s.width, 2), FDiv(s.height, 2), Thin>>))

---------------------------------------------------------------------------
(* Cylinder *)

\* Cylinder::new
Cylinder_new(center, radius, height, material) ==
    [type |-> "Cylinder", center |-> Offset_new(center), radius |-> radius,
     height |-> height, material |-> material]

\* Cylinder::hit_origin
Cylinder_hit_origin(s, ray, t_min, t_max) ==
    LET oc == <<ray.origin[1], 0, ray.origin[3]>>
        a == FAdd(FMul(ray.direction[1], ray.direction[1]),
                  FMul(ray.direction[3], ray.direction[3]))
        b_halves == Dot(oc, ray.direction)
        c == FSub(NormSquared(oc), FMul(s.radius, s.radius))
        discriminant == FSub(FMul(b_halves, b_halves), FMul(a, c))
        out(root) == FLt(root, t_min) \/ FGt(root, t_max)
        record(point, root) ==
            Some(HitRecord_from_ray(point,
                                    <<FDiv(point[1], s.radius), 0, FDiv(point[3], s.radius)>>,
                                    root, s.material, ray))
    IN  IF FLt(discriminant, 0) THEN None
        ELSE
        LET discriminant_sqrt == FSqrt(discriminant)
            root1 == FDiv(FSub(FNeg(b_halves), discriminant_sqrt), a)
            root2 == FDiv(FAdd(FNeg(b_halves), discriminant_sqrt), a)
        IN  IF out(root1) /\ out(root2) THEN None
            ELSE
            LET point1 == Ray_at(ray, root1)
                point2 == Ray_at(ray, root2)
                upper_bound == FDiv(s.height, 2)
                lower_bound == FDiv(FNeg(s.height), 2)
                cap(bound) == FDiv(FSub(bound, ray.origin[2]), ray.direction[2])
            IN  IF FGt(point1[2], upper_bound)
                THEN IF FGt(point2[2], upper_bound) THEN None
                     ELSE IF ray.direction[2] = 0 THEN None
                     ELSE IF out(cap(upper_bound)) THEN None
                     ELSE record(Ray_at(ray, cap(upper_bound)), cap(upper_bound))
                ELSE IF FLt(point1[2], lower_bound)
                THEN IF FLt(point2[2], lower_bound) THEN None
                     ELSE IF ray.direction[2] = 0 THEN None
                     ELSE IF out(cap(lower_bound)) THEN None
                     ELSE record(Ray_at(ray, cap(lower_bound)), cap(lower_bound))
                ELSE IF ~out(root1) THEN record(point1, root1)
                     ELSE IF out(root2) THEN None
                     ELSE record(point2, root2)

\* Cylinder::bounding_box_origin
Cylinder_bounding_box_origin(s) ==
    LET r == FAbsF(s.radius)
        h == FDiv(FAbsF(s.height), 2)
    IN  Some(Aabb_new(VNeg(<<r, h, r>>), <<r, h, r>>))

---------------------------------------------------------------------------
(* ConstantMedium *)

\* ConstantMedium::new.  center is what center() returns, the Offset of the
\* boundary; ln is the value of rng.gen::<f32>().ln() in the call of
\* hit_origin, which is zero or negative, -infinity when gen() returns 0.
ConstantMedium_new(boundary, material, density, ln) ==
    [type |-> "ConstantMedium", boundary |-> boundary, center |-> boundary.center,
     material |-> material, negative_inverse_density |-> FDiv(-1, density), ln |-> ln]

\* the rest of ConstantMedium::hit_origin, once both hits of the boundary
\* are found
ConstantMedium_hit_between(s, ray, t_min, t_max, t1, t2) ==
    LET hit1_t == IF FLt(t1, t_min) THEN t_min ELSE t1
        hit2_t == IF FGt(t2, t_max) THEN t_max ELSE t2
    IN  IF FGt(hit1_t, hit2_t) THEN None
        ELSE
        LET from == IF FLt(hit1_t, 0) THEN 0 ELSE hit1_t
            ray_length == FSqrt(NormSquared(ray.direction))
            distance_inside_boundary == FMul(FSub(hit2_t, from), ray_length)
            hit_distance == FMul(s.negative_inverse_density, s.ln)
        IN  IF FGt(hit_distance, distance_inside_boundary) THEN None
            ELSE LET t == FAdd(from, FDiv(hit_distance, ray_length))
                 IN  Some([point |-> Ray_at(ray, t), normal |-> Zero3, t |-> t,
                           front_face |-> TRUE, material |-> s.material])

\* ConstantMedium::hit_origin
ConstantMedium_hit_origin(s, ray, t_min, t_max) ==
    LET hit1 == Hittable_hit(s.boundary, ray, NInf, PInf)
    IN  IF ~IsSome(hit1) THEN None
        ELSE
        LET hit2 == Hittable_hit(s.boundary, ray, FAdd(Unwrap(hit1).t, Thin), PInf)
        IN  IF ~IsSome(hit2) THEN None
            ELSE ConstantMedium_hit_between(s, ray, t_min, t_max,
                                            Unwrap(hit1).t, Unwrap(hit2).t)

\* ConstantMedium::bounding_box_origin
ConstantMedium_bounding_box_origin(s, time0, time1) ==
    bounding_box_origin(s.boundary, time0, time1)

---------------------------------------------------------------------------
(* HittableList *)

\* HittableList::new
HittableList_new(center) == [type |-> "List", center |-> Offset_new(center), hittables |-> <<>>]
\* HittableList::push
HittableList_push(l, hittable) == [l EXCEPT !.hittables = Append(@, hittable)]

\* the loop of HittableList::hit_origin from member i on; ListHitBody is
\* the loop body, given the member's answer
RECURSIVE ListHitLoop(_, _, _, _, _, _)
ListHitBody(hittables, i, ray, t_min, closest_so_far, hit_record_final, h) ==
    IF IsSome(h)
    THEN ListHitLoop(hittables, i + 1, ray, t_min, Unwrap(h).t, h)
    ELSE ListHitLoop(hittables, i + 1, ray, t_min, closest_so_far, hit_record_final)

ListHitLoop(hittables, i, ray, t_min, closest_so_far, hit_record_final) ==
    IF i > Len(hittables) THEN hit_record_final
    ELSE ListHitBody(hittables, i, ray, t_min, closest_so_far, hit_record_final,
                     Hittable_hit(hittables[i], ray, t_min, closest_so_far))

\* HittableList::hit_origin
HittableList_hit_origin(l, ray, t_min, t_max) ==
    ListHitLoop(l.hittables, 1, ray, t_min, t_max, None)

\* a variant of the loop body of HittableList::bounding_box_origin that
\* keeps the box of the last member only
RECURSIVE ListBoxLoop(_, _, _, _, _)
ListBoxBody_last(hittables, i, time0, time1, aabb_out, b) ==
    IF IsSome(b)
    THEN ListBoxLoop(hittables, i + 1, time0, time1, b)
    ELSE None

\* the loop of HittableList::bounding_box_origin from member i on;
\* ListBoxBody is the loop body, given the member's box
ListBoxBody(hittables, i, time0, time1, aabb_out, b) ==
    IF IsSome(b)
    THEN ListBoxLoop(hittables, i + 1, time0, time1,
                     IF IsSome(aabb_out)
                     THEN Some(Aabb_surrounding(Unwrap(aabb_out), Unwrap(b)))
                     ELSE b)
    ELSE None

ListBoxLoop(hittables, i, time0, time1, aabb_out) ==
    IF i > Len(hittables) THEN aabb_out
    ELSE ListBoxBody(hittables, i, time0, time1, aabb_out,
                     Hittable_bounding_box(hittables[i], time0, time1))

\* HittableList::bounding_box_origin
HittableList_bounding_box_origin(l, time0, time1) ==
    IF l.hittables = <<>> THEN None
    ELSE ListBoxLoop(l.hittables, 1, time0, time1, None)

---------------------------------------------------------------------------
(* Bvh *)

\* impl Hittable for Bvh: hit_origin.  subnode is <<child>> for BvhNode::One
\* and <<left, right>> for BvhNode::Two.
Option_or(a, b) == IF IsSome(a) THEN a ELSE b

\* a variant of the BvhNode::Two arm that prefers the left child's hit
Bvh_hit_two_left_first(b, ray, t_min, t_max, hit_left) ==
    Option_or(hit_left, Hittable_hit(b.subnode[2], ray, t_min, t_max))

\* the BvhNode::Two arm of Bvh::hit_origin, given the left child's answer
Bvh_hit_two(b, ray, t_min, t_max, hit_left) ==
    LET t_max_r == IF IsSome(hit_left) THEN Unwrap(hit_left).t ELSE t_max
    IN  Option_or(Hittable_hit(b.subnode[2], ray, t_min, t_max_r), hit_left)

Bvh_hit_origin(b, ray, t_min, t_max) ==
    IF ~Aabb_hit(b.aabb, ray, t_min, t_max) THEN None
    ELSE IF Len(b.subnode) = 1 THEN Hittable_hit(b.subnode[1], ray, t_min, t_max)
    ELSE Bvh_hit_two(b, ray, t_min, t_max,
                     Hittable_hit(b.subnode[1], ray, t_min, t_max))

\* impl Hittable for Bvh: bounding_box_origin
Bvh_bounding_box_origin(b) == Some(b.aabb)

\* Hittable::hit_origin, by dynamic dispatch
hit_origin(h, ray, t_min, t_max) ==
    CASE h.type = "Sphere" -> Sphere_hit_origin(h, ray, t_min, t_max)
      [] h.type = "Rectangle" -> Rectangle_hit_origin(h, ray, t_min, t_max)
      [] h.type = "Cylinder" -> Cylinder_hit_origin(h, ray, t_min, t_max)
      [] h.type = "ConstantMedium" -> ConstantMedium_hit_origin(h, ray, t_min, t_max)
      [] h.type = "List" -> HittableList_hit_origin(h, ray, t_min, t_max)
      [] h.type = "Bvh" -> Bvh_hit_origin(h, ray, t_min, t_max)

\* Hittable::bounding_box_origin, by dynamic dispatch
bounding_box_origin(h, time0, time1) ==
    CASE h.type = "Sphere" -> Sphere_bounding_box_origin(h)
      [] h.type = "Rectangle" -> Rectangle_bounding_box_origin(h)
      [] h.type = "Cylinder" -> Cylinder_bounding_box_origin(h)
      [] h.type = "ConstantMedium" -> ConstantMedium_bounding_box_origin(h, time0, time1)
      [] h.type = "List" -> HittableList_bounding_box_origin(h, time0, time1)
      [] h.type = "Bvh" -> Bvh_bounding_box_origin(h)

\* a variant of Bvh::check_hittable_list that tests emptiness only
Bvh_check_hittable_list_nonempty(hittables) ==
    hittables.hittables # <<>>

\* Bvh::check_hittable_list
Bvh_check_hittable_list(hittables) ==
    /\ hittables.hittables # <<>>
    /\ \A i \in 1..Len(hittables.hittables) :
           IsSome(Hittable_bounding_box(hittables.hittables[i], 0, 0))

\* slice::sort_by with cmp_box: a stable sort.  Every member of a slice of
\* two or more is compared at least once, so a comparison that panics is
\* reached whenever one exists.
SortPanics(hs, axis) ==
    \E i, j \in 1..Len(hs) : i # j /\ cmp_box(hs[i], hs[j], axis) = "Panic"

\* a variant of the insertion that puts x before the members Equal to it
RECURSIVE InsertSorted(_, _, _)
InsertSorted_before_equal(sorted, x, axis) ==
    IF sorted = <<>> THEN <<x>>
    ELSE IF cmp_box(sorted[Len(sorted)], x, axis) \in {"Greater", "Equal"}
         THEN Append(InsertSorted(SubSeq(sorted, 1, Len(sorted) - 1), x, axis),
                     sorted[Len(sorted)])
         ELSE Append(sorted, x)

\* insertion of x behind every member that is not Greater than it
InsertSorted(sorted, x, axis) ==
    IF sorted = <<>> THEN <<x>>
    ELSE IF cmp_box(sorted[Len(sorted)], x, axis) = "Greater"
         THEN Append(InsertSorted(SubSeq(sorted, 1, Len(sorted) - 1), x, axis),
                     sorted[Len(sorted)])
         ELSE Append(sorted, x)

RECURSIVE StableSort(_, _)
StableSort(hs, axis) ==
    IF hs = <<>> THEN <<>>
    ELSE InsertSorted(StableSort(SubSeq(hs, 1, Len(hs) - 1), axis), hs[Len(hs)], axis)

\* HittableList::sort_by_box
sort_by_box(l, axis) == [l EXCEPT !.hittables = StableSort(@, axis)]

\* a variant of split_at that leaves the member at mid out of both halves
split_at_skip(l, mid) ==
    <<[l EXCEPT !.hittables = SubSeq(@, 1, mid)],
      [l EXCEPT !.hittables = SubSeq(@, mid + 2, Len(@))]>>

\* HittableList::split_at
split_at(l, mid) ==
    <<[l EXCEPT !.hittables = SubSeq(@, 1, mid)],
      [l EXCEPT !.hittables = SubSeq(@, mid + 1, Len(@))]>>

\* the tail of Bvh::new: the node's box from the children's boxes bs, and
\* the Ok value
Bvh_node(center, subnode, bs, rest) ==
    IF \E i \in 1..Len(subnode) : ~IsSome(bs[i])
    THEN [res |-> "Err", bvh |-> None, rest |-> rest]
    ELSE [res |-> "Ok",
          bvh |-> Some([type |-> "Bvh", center |-> center,
                        aabb |-> IF Len(subnode) = 1 THEN Unwrap(bs[1])
                                 ELSE Aabb_surrounding(Unwrap(bs[1]), Unwrap(bs[2])),
                        subnode |-> subnode]),
          rest |-> rest]

Bvh_finish(center, subnode, time0, time1, rest) ==
    Bvh_node(center, subnode,
             [i \in 1..Len(subnode) |-> Hittable_bounding_box(subnode[i], time0, time1)],
             rest)

\* Bvh::new.  axes is the sequence of the values rand.gen_range(0..=2)
\* returns in the calls that read the axis they draw (those with two or more
\* hittables), in the order of the calls; rest is what the call left of it.
\* res is "Ok", "Err" (BoundingBoxError) or "Panic".
RECURSIVE Bvh_new(_, _, _, _)

\* lines 387-390 of Bvh::new: the two recursive calls, each with its `?`
Bvh_new_join(center, left, right, time0, time1) ==
    IF right.res # "Ok" THEN right
    ELSE Bvh_finish(center, <<Unwrap(left.bvh), Unwrap(right.bvh)>>,
                    time0, time1, right.rest)

Bvh_new_right(center, split, left, time0, time1) ==
    IF left.res # "Ok" THEN left
    ELSE Bvh_new_join(center, left, Bvh_new(split[2], time0, time1, left.rest),
                      time0, time1)

Bvh_new_left(center, split, time0, time1, rest) ==
    Bvh_new_right(center, split, Bvh_new(split[1], time0, time1, rest), time0, time1)

Bvh_new(hittables, time0, time1, axes) ==
    IF ~Bvh_check_hittable_list(hittables)
    THEN [res |-> "Err", bvh |-> None, rest |-> axes]
    ELSE
    LET center == hittables.center
        axis == Head(axes)
        rest == Tail(axes)
        hs == hittables.hittables
    IN  IF Len(hs) = 1 THEN Bvh_finish(center, <<hs[1]>>, time0, time1, axes)
        ELSE IF Len(hs) = 2 THEN
            LET last == hs[2]
                first_ == hs[1]
                c == cmp_box(first_, last, axis)
            IN  IF c = "Panic" THEN [res |-> "Panic", bvh |-> None, rest |-> rest]
                ELSE IF c \in {"Less", "Equal"}
                     THEN Bvh_finish(center, <<first_, last>>, time0, time1, rest)
                     ELSE Bvh_finish(center, <<last, first_>>, time0, time1, rest)
        ELSE IF SortPanics(hs, axis) THEN [res |-> "Panic", bvh |-> None, rest |-> rest]
        ELSE Bvh_new_left(center, split_at(sort_by_box(hittables, axis), Len(hs) \div 2),
                          time0, time1, rest)

\* the number of calls of Bvh::new that read their axis, for n hittables
RECURSIVE BvhCalls(_)
BvhCalls(n) ==
    IF n <= 1 THEN 0
    ELSE IF n = 2 THEN 1
    ELSE 1 + BvhCalls(n \div 2) + BvhCalls(n - n \div 2)

---------------------------------------------------------------------------
(* Colors and materials.  A material is the name of its type; its texture  *)
(* is the solid color below.                                               *)

BLACK == <<0, 0, 0>>
WHITE == <<1, 1, 1>>

\* Color + Color, Color * Color
CAdd(a, b) == [k \in Axes |-> FAdd(a[k], b[k])]
CMul(a, b) == [k \in Axes |-> FMul(a[k], b[k])]

\* the solid colors of the materials' textures
Texture(material) ==
    CASE material = "lambertian" -> <<1, 1, 0>>
      [] material = "metal" -> <<1, 0, 1>>
      [] material = "light" -> <<4, 4, 4>>
      [] OTHER -> WHITE

\* Vector3::unit_vector, reflect, refract
unit_vector(a) == VDivS(a, FSqrt(NormSquared(a)))
reflect(a, normal) == VSub(a, VScale(FMul(2, Dot(a, normal)), normal))
refract_parallel(perp, normal) ==
    VScale(FNeg(FSqrt(FAbsF(FSub(1, NormSquared(perp))))), normal)
refract(a, normal, etai_over_etat) ==
    refract_parallel(VScale(etai_over_etat,
                            VAdd(a, VScale(FMin(FNeg(Dot(a, normal)), 1), normal))),
                     normal)

\* Material::emit
Material_emit(material) ==
    IF material = "light" THEN Texture(material) ELSE BLACK

\* Lambertian::scatter.  random_unit_vector is taken opposite to the normal,
\* the draw of lines 50-52 (scatter_direction near zero); it is the draw whose
\* scattered ray stays on a coordinate axis.
Lambertian_scatter(ray, hit) ==
    Some([ray |-> Ray_with_time(Ray_new(hit.point, hit.normal), ray.time),
          attenuation |-> Texture("lambertian")])

\* Metal::scatter, with fuzz = 0
Metal_fuzz == 0
Metal_scattered(ray, hit, random_in_unit_sphere) ==
    Ray_with_time(Ray_new(hit.point,
                          VAdd(reflect(unit_vector(ray.direction), hit.normal),
                               VScale(Metal_fuzz, random_in_unit_sphere))),
                  ray.time)
Metal_scatter_of(scattered, hit) ==
    IF FGt(Dot(scattered.direction, hit.normal), 0)
    THEN Some([ray |-> scattered, attenuation |-> Texture("metal")])
    ELSE None
Metal_scatter(ray, hit) == Metal_scatter_of(Metal_scattered(ray, hit, Zero3), hit)

\* Dielectric::reflectance
Pow5(x) == FMul(FMul(FMul(FMul(x, x), x), x), x)
Dielectric_r0(refraction_ratio) ==
    FDiv(FSub(1, refraction_ratio), FAdd(1, refraction_ratio))
Dielectric_reflectance(cos, refraction_ratio) ==
    FAdd(FMul(Dielectric_r0(refraction_ratio), Dielectric_r0(refraction_ratio)),
         FMul(FSub(1, FMul(Dielectric_r0(refraction_ratio),
                           Dielectric_r0(refraction_ratio))),
              Pow5(FSub(1, cos))))

\* Dielectric::scatter, with index_of_refraction = 1.  draw is twice the value
\* of rng.gen(): 0 for 0.0, 1 for 0.5.
index_of_refraction == 1
Dielectric_direction(unit_direction, normal, refraction_ratio, cos_theta, draw) ==
    IF \/ FGt(FMul(refraction_ratio, FSqrt(FSub(1, FMul(cos_theta, cos_theta)))), 1)
       \/ FGt(FMul(2, Dielectric_reflectance(cos_theta, refraction_ratio)), draw)
    THEN reflect(unit_direction, normal)
    ELSE refract(unit_direction, normal, refraction_ratio)
Dielectric_scatter(ray, hit, draw) ==
    Some([ray |-> Ray_with_time(
                      Ray_new(hit.point,
                              Dielectric_direction(
                                  unit_vector(ray.direction), hit.normal,
                                  IF hit.front_face
                                  THEN FDiv(1, index_of_refraction)
                                  ELSE index_of_refraction,
                                  FMin(FNeg(Dot(unit_vector(ray.direction), hit.normal)), 1),
                                  draw)),
                      ray.time),
          attenuation |-> WHITE])

\* Material::scatter, by dynamic dispatch; draw is the value the material
\* reads from the generator
Material_scatter(material, ray, hit, draw) ==
    CASE material = "lambertian" -> Lambertian_scatter(ray, hit)
      [] material = "metal" -> Metal_scatter(ray, hit)
      [] material = "dielectric" -> Dielectric_scatter(ray, hit, draw)
      [] material = "light" -> None

\* the number of values scatter takes from the thread's generator (a rejection
\* loop counts as one)
ScatterDraws(material) == IF material = "light" THEN 0 ELSE 1

---------------------------------------------------------------------------
(* The thread-local generator of rand::thread_rng(): a state and a step.   *)

\* the number of states of the generator
RngPeriod == 3
\* twice the value of gen::<f32>() in a state: 0 for 0.0, 1 for 0.5
Gen(s) == s % 2
\* the state after n values were taken
RngSkip(s, n) == (s + n) % RngPeriod

---------------------------------------------------------------------------
(* Raytracer::ray_color, as a machine with an explicit call stack.  A      *)
(* machine m holds the arguments shared by all calls (world_option,        *)
(* background), the stack of the calls in progress, the value the last     *)
(* finished call returned (ret), the state of the thread's generator, and  *)
(* what is observed of the run: the number of hit tests made, whether a    *)
(* depth underflowed, and a record of the last return (last).              *)

\* u16: depth - 1 wraps in a release build and panics in a debug build when
\* depth is 0
U16 == 65536
U16Sub(a, b) == (a - b + U16) % U16

\* enum HittableListOptions
HittableListOptions_Bvh(b) == [kind |-> "Bvh", world |-> b]
HittableListOptions_HittableList(l) == [kind |-> "HittableList", world |-> l]

NoLast == [case |-> "none"]

Top(m) == m.stack[Len(m.stack)]
Pop(m) == SubSeq(m.stack, 1, Len(m.stack) - 1)
Frame(ray, depth) ==
    [ray |-> ray, depth |-> depth, emitted |-> BLACK, attenuation |-> BLACK, draw |-> 0]

\* the call ray_color(world_option, ray, background, depth), on a thread whose
\* generator is in state s
ray_color_call(world_option, ray, background, depth, s) ==
    [world_option |-> world_option, background |-> background, depth |-> depth,
     stack |-> <<Frame(ray, depth)>>, ret |-> None, rng |-> s,
     hits |-> 0, underflow |-> FALSE, last |-> NoLast]

ray_color_done(m) == m.stack = <<>>

\* lines 202-204: depth == 0
ray_color_depth0(m) ==
    [m EXCEPT !.stack = Pop(m), !.ret = Some(BLACK),
              !.last = [case |-> "depth0", depth |-> Top(m).depth,
                        ray |-> Top(m).ray, draw |-> 0, value |-> BLACK]]

\* line 241: no hit
ray_color_background(m) ==
    [m EXCEPT !.stack = Pop(m), !.ret = Some(m.background), !.hits = @ + 1,
              !.last = [case |-> "miss", depth |-> Top(m).depth,
                        ray |-> Top(m).ray, draw |-> 0, value |-> m.background]]

\* lines 220 and 236: the material does not scatter
ray_color_emitted(m, hit) ==
    [m EXCEPT !.stack = Pop(m), !.ret = Some(Material_emit(hit.material)),
              !.hits = @ + 1,
              !.rng = RngSkip(@, ScatterDraws(hit.material)),
              !.last = [case |-> "absorbed", depth |-> Top(m).depth,
                        ray |-> Top(m).ray, draw |-> Gen(m.rng),
                        value |-> Material_emit(hit.material)]]

\* the recursive call of lines 213-218 and 229-234, with the depth given
ray_color_recurse(m, hit, scatter, depth) ==
    [m EXCEPT !.stack = Append(Append(Pop(m),
                                      [Top(m) EXCEPT
                                          !.emitted = Material_emit(hit.material),
                                          !.attenuation = scatter.attenuation,
                                          !.draw = Gen(m.rng)]),
                               Frame(scatter.ray, depth)),
              !.hits = @ + 1,
              !.rng = RngSkip(@, ScatterDraws(hit.material)),
              !.underflow = @ \/ Top(m).depth < 1]

\* a variant of the Bvh arm whose recursive call passes depth unchanged
ray_color_bvh_scatter_same_depth(m, hit, scatter) ==
    IF IsSome(scatter)
    THEN ray_color_recurse(m, hit, Unwrap(scatter), Top(m).depth)
    ELSE ray_color_emitted(m, hit)

\* lines 207-222, the arm HittableListOptions::Bvh: from the answer of
\* scatter on, from the answer of hit on, and whole
ray_color_bvh_scatter(m, hit, scatter) ==
    IF IsSome(scatter)
    THEN ray_color_recurse(m, hit, Unwrap(scatter), U16Sub(Top(m).depth, 1))
    ELSE ray_color_emitted(m, hit)

ray_color_bvh_hit(m, hit) ==
    IF IsSome(hit)
    THEN ray_color_bvh_scatter(m, Unwrap(hit),
             Material_scatter(Unwrap(hit).material, Top(m).ray, Unwrap(hit), Gen(m.rng)))
    ELSE ray_color_background(m)

ray_color_bvh(m) ==
    ray_color_bvh_hit(m, Hittable_hit(m.world_option.world, Top(m).ray, TMin, PInf))

\* lines 223-238, the arm HittableListOptions::HittableList, likewise
ray_color_list_scatter(m, hit, scatter) ==
    IF IsSome(scatter)
    THEN ray_color_recurse(m, hit, Unwrap(scatter), U16Sub(Top(m).depth, 1))
    ELSE ray_color_emitted(m, hit)

ray_color_list_hit(m, hit) ==
    IF IsSome(hit)
    THEN ray_color_list_scatter(m, Unwrap(hit),
             Material_scatter(Unwrap(hit).material, Top(m).ray, Unwrap(hit), Gen(m.rng)))
    ELSE ray_color_background(m)

ray_color_list(m) ==
    ray_color_list_hit(m, Hittable_hit(m.world_option.world, Top(m).ray, TMin, PInf))

\* a variant of the sum of the list arm that leaves the attenuation out
ray_color_list_sum_unattenuated(emitted, attenuation, color) ==
    CAdd(emitted, color)

\* lines 211-218 and 227-234: emitted + attenuation * the callee's color
ray_color_bvh_sum(emitted, attenuation, color) ==
    CAdd(emitted, CMul(attenuation, color))
ray_color_list_sum(emitted, attenuation, color) ==
    CAdd(emitted, CMul(attenuation, color))

ray_color_sum(kind, emitted, attenuation, color) ==
    CASE kind = "Bvh" -> ray_color_bvh_sum(emitted, attenuation, color)
      [] kind = "HittableList" -> ray_color_list_sum(emitted, attenuation, color)

\* the return of the call on top of the stack once its callee has returned
ray_color_return_of(m, value) ==
    [m EXCEPT !.stack = Pop(m), !.ret = Some(value),
              !.last = [case |-> "scattered", depth |-> Top(m).depth,
                        ray |-> Top(m).ray, draw |-> Top(m).draw, value |-> value,
                        child |-> [case |-> m.last.case, ray |-> m.last.ray,
                                   depth |-> m.last.depth,
                                   value |-> m.last.value]]]

ray_color_return(m) ==
    ray_color_return_of(m, ray_color_sum(m.world_option.kind, Top(m).emitted,
                                         Top(m).attenuation, Unwrap(m.ret)))

\* one step of the call on top of the stack
ray_color_step(m) ==
    IF IsSome(m.ret) THEN ray_color_return(m)
    ELSE IF Top(m).depth = 0 THEN ray_color_depth0(m)
    ELSE IF m.world_option.kind = "Bvh" THEN ray_color_bvh(m)
    ELSE ray_color_list(m)

\* ray_color run to its return: ret holds the color, rng the generator state
RECURSIVE ray_color_run(_)
ray_color_run(m) ==
    IF ray_color_done(m) THEN m ELSE ray_color_run(ray_color_step(m))

ray_color(world_option, ray, background, depth, s) ==
    ray_color_run(ray_color_call(world_option, ray, background, depth, s))

---------------------------------------------------------------------------
(* Scenes: what the scene-construction call sites push into a world.       *)

\* the longest world built
MaxLen == 3

\* a rotation by 180 degrees about the y axis
RotY180 == <<<<-1, 0, 0>>, <<0, 1, 0>>, <<0, 0, -1>>>>

\* the primitives pushed into a world: unit spheres, static and moving (as
\* book2's sphere3, over the times 0 to 1); a sphere whose center has a NaN
\* coordinate; and an empty HittableList, which has no bounding box
Prims ==
    { Sphere_new(<<0, 0, 0>>, 1, "lambertian"),
      Sphere_new(<<3, 0, 0>>, 1, "light"),
      Movable_moving(Sphere_new(<<0, 3, 0>>, 1, "metal"), <<0, 0, 0>>, 0, 1),
      Sphere_new(<<NaN, 0, 0>>, 1, "metal"),
      HittableList_new(Zero3) }

\* the centers a HittableList is created with
ListCenters == {Zero3, <<1, 0, 0>>}

\* the rays probed: along the x axis in both directions, at the times 0 and 1
ProbeRays ==
    { Ray_new(<<-6, 0, 0>>, <<1, 0, 0>>),
      Ray_with_time(Ray_new(<<-6, 0, 0>>, <<1, 0, 0>>), 1),
      Ray_new(<<6, 0, 0>>, <<-1, 0, 0>>) }

\* the windows (t_min, t_max) probed
ProbeWindows == {<<0, PInf>>, <<0, 5>>}

\* the values of time1 Bvh::new is called with (time0 is 0)
BuildTimes == {0, 1}

AxisDraws(n) == [1..BvhCalls(n) -> Axes]

NoProbe == [done |-> FALSE]

Idle == <<>>

\* HittableList::push on the world, before it is handed to Bvh::new
Push(p) ==
    /\ bvh = None
    /\ Len(world.hittables) < MaxLen
    /\ world' = HittableList_push(world, p)
    /\ UNCHANGED <<bvh, probe>>
    /\ UNCHANGED <<faceVars, boxVars, renderVars, rcVars, callVars>>

\* Bvh::new(world, 0., time1)
New(time1, axes) ==
    /\ bvh = None
    /\ bvh' = Some([Bvh_new(world, 0, time1, axes) EXCEPT !.rest = <<>>]
                   @@ [time1 |-> time1])
    /\ UNCHANGED <<world, probe>>
    /\ UNCHANGED <<faceVars, boxVars, renderVars, rcVars, callVars>>

\* one ray tested against the list and against the Bvh built from it
Probe(ray, w) ==
    /\ ~probe.done
    /\ IsSome(bvh)
    /\ Unwrap(bvh).res = "Ok"
    /\ probe' = [done |-> TRUE, ray |-> ray, t_min |-> w[1], t_max |-> w[2],
                 list |-> Hittable_hit(world, ray, w[1], w[2]),
                 bvh |-> Hittable_hit(Unwrap(Unwrap(bvh).bvh), ray, w[1], w[2])]
    /\ UNCHANGED <<world, bvh>>
    /\ UNCHANGED <<faceVars, boxVars, renderVars, rcVars, callVars>>

BvhNext ==
    \/ \E p \in Prims : Push(p)
    \/ \E time1 \in BuildTimes : \E axes \in AxisDraws(Len(world.hittables)) :
           New(time1, axes)
    \/ \E ray \in ProbeRays : \E w \in ProbeWindows : Probe(ray, w)

---------------------------------------------------------------------------
(* Properties of Bvh::new and of the hit tests *)

HasBox(h) == IsSome(Hittable_bounding_box(h, 0, 0))
Members == {world.hittables[i] : i \in 1..Len(world.hittables)}
\* a member whose bounding box has a NaN minimum coordinate
HasNaNMin(h) == HasBox(h) /\ \E k \in Axes : IsNaN(Unwrap(Hittable_bounding_box(h, 0, 0)).minimum[k])
Built == IsSome(bvh)
BuiltOk == Built /\ Unwrap(bvh).res = "Ok"

\* C1: for any list of boundable primitives, any ray and any window, the Bvh
\* built from the list and the list itself agree on hit: both None, or both a
\* hit with the same t.
C1_BvhAgreesWithList ==
    (probe.done /\ BuiltOk)
        => \/ ~IsSome(probe.list) /\ ~IsSome(probe.bvh)
           \/ /\ IsSome(probe.list) /\ IsSome(probe.bvh)
              /\ Unwrap(probe.list).t = Unwrap(probe.bvh).t

\* C2 (as stated): Bvh::new on a list with a member without a bounding box
\* returns Err(BoundingBoxError) and no tree; on a non-empty list whose
\* members all have a bounding box it returns Ok.
C2_ErrOrOk ==
    Built =>
        /\ (\E m \in Members : ~HasBox(m))
               => (Unwrap(bvh).res = "Err" /\ Unwrap(bvh).bvh = None)
        /\ (Members # {} /\ \A m \in Members : HasBox(m))
               => Unwrap(bvh).res = "Ok"

\* C2 (amended): Bvh::new on a list with a member without a bounding box
\* returns Err(BoundingBoxError) and no tree; on a non-empty list whose
\* members all have a bounding box with no NaN minimum it returns Ok with a
\* tree; when all members have a box, the only other outcome is the panic of
\* cmp_box, which needs two or more members and a NaN minimum, and leaves no
\* tree either.
C2_ErrOrOkUnlessNaN ==
    Built =>
        /\ (\E m \in Members : ~HasBox(m))
               => (Unwrap(bvh).res = "Err" /\ Unwrap(bvh).bvh = None)
        /\ (Members # {} /\ \A m \in Members : HasBox(m) /\ ~HasNaNMin(m))
               => (Unwrap(bvh).res = "Ok" /\ IsSome(Unwrap(bvh).bvh))
        /\ (Members # {} /\ \A m \in Members : HasBox(m))
               => /\ Unwrap(bvh).res \in {"Ok", "Panic"}
                  /\ Unwrap(bvh).res = "Panic"
                        => /\ Len(world.hittables) >= 2
                           /\ \E m \in Members : HasNaNMin(m)
                           /\ Unwrap(bvh).bvh = None

\* Bvh::new has returned Err on a list of three with both a member without a
\* box and members with one
C2_Witness ==
    /\ Built
    /\ Len(world.hittables) = 3
    /\ \E m \in Members : ~HasBox(m)
    /\ \E m \in Members : HasBox(m) /\ ~HasNaNMin(m)
    /\ Unwrap(bvh).res = "Err"

---------------------------------------------------------------------------
(* HitRecord::from_ray on its own *)

\* the largest coordinate of the ray directions and outward normals tried
MaxCoord == 1

Coords == (-MaxCoord)..MaxCoord
\* the non-zero vectors tried, as directions and as normals
Vectors == {<<x, y, z>> : x \in Coords, y \in Coords, z \in Coords} \ {Zero3}

NoFace == [done |-> FALSE]

\* HitRecord::from_ray(point, u, v, normal, t, material, ray), as the hit
\* tests call it
FromRay(direction, normal) ==
    /\ ~face.done
    /\ face' = [done |-> TRUE,
                ray |-> Ray_new(Zero3, direction),
                outward_normal |-> normal,
                record |-> HitRecord_from_ray(Zero3, normal, 1, "lambertian",
                                              Ray_new(Zero3, direction))]
    /\ UNCHANGED <<bvhVars, boxVars, renderVars, rcVars, callVars>>

FaceNext == \E direction \in Vectors : \E normal \in Vectors :
                FromRay(direction, normal)

---------------------------------------------------------------------------
(* Bounding boxes on their own *)

\* the list of the two static spheres, created with a center off the origin
TwoSpheres ==
    HittableList_push(HittableList_push(HittableList_new(<<1, 0, 0>>),
                                        Sphere_new(<<0, 0, 0>>, 1, "lambertian")),
                      Sphere_new(<<3, 0, 0>>, 1, "light"))

\* the hittables whose box is asked for: spheres under a static offset, under
\* a rotation, under a motion towards larger and towards smaller coordinates,
\* with a negative radius; lists, empty and not; a Bvh
BoxHittables ==
    { Sphere_new(<<0, 0, 0>>, 1, "lambertian"),
      Sphere_new(<<3, 0, 0>>, 1, "light"),
      Sphere_new(<<0, 0, 0>>, -1, "dielectric"),
      Movable_with_rotation(Sphere_new(<<0, 0, 0>>, 1, "metal"), RotY180),
      Movable_moving(Sphere_new(<<0, 0, 0>>, 1, "metal"), <<0, 3, 0>>, 0, 1),
      Movable_moving(Sphere_new(<<0, 3, 0>>, 1, "metal"), <<0, 0, 0>>, 0, 1),
      HittableList_new(Zero3),
      TwoSpheres,
      Unwrap(Bvh_new(TwoSpheres, 0, 0, <<1>>).bvh) }

\* the time intervals (time0, time1) a box is asked for
BoxTimes == {<<0, 0>>, <<0, 1>>, <<1, 1>>}

NoBoxes == [prev |-> None, box |-> None, surrounding |-> None]

\* Hittable::bounding_box(time0, time1) of one hittable; the box computed
\* before it is kept for Aabb::surrounding
BoundingBox(h, t) ==
    /\ boxes' = [prev |-> boxes.box,
                 box |-> Hittable_bounding_box(h, t[1], t[2]),
                 surrounding |-> None]
    /\ UNCHANGED <<bvhVars, faceVars, renderVars, rcVars, callVars>>

\* Aabb::surrounding of the last two boxes computed
Surrounding ==
    /\ IsSome(boxes.prev) /\ IsSome(boxes.box)
    /\ boxes.surrounding = None
    /\ boxes' = [boxes EXCEPT !.surrounding =
                     Some(Aabb_surrounding(Unwrap(boxes.prev), Unwrap(boxes.box)))]
    /\ UNCHANGED <<bvhVars, faceVars, renderVars, rcVars, callVars>>

BoxNext ==
    \/ \E h \in BoxHittables : \E t \in BoxTimes : BoundingBox(h, t)
    \/ Surrounding

\* minimum <= maximum on each axis
Ordered(aabb_option) ==
    IsSome(aabb_option)
        => \A k \in Axes : FLe(Unwrap(aabb_option).minimum[k],
                                Unwrap(aabb_option).maximum[k])

\* C10: every box returned by bounding_box, under any Offset and any time
\* interval, and every box returned by Aabb::surrounding on such boxes, has
\* minimum <= maximum on each of the three axes.
C10_MinBelowMax ==
    Ordered(boxes.box) /\ Ordered(boxes.surrounding)

---------------------------------------------------------------------------
(* Aabb::surrounding on its own *)

\* the boxes bounding_box returns for the hittables above
ProducedBoxes ==
    {Unwrap(b) : b \in {x \in {Hittable_bounding_box(h, t[1], t[2]) :
                                   h \in BoxHittables, t \in BoxTimes} : IsSome(x)}}

\* the boxes Aabb::surrounding is called on: the produced ones, and the cubes
\* Aabb::new builds from any two coordinates, NaN among them
CubeCoords == Coords \cup {NaN}
SurBoxes ==
    ProducedBoxes
        \cup {Aabb_new(<<a, a, a>>, <<b, b, b>>) : a \in CubeCoords, b \in CubeCoords}

NoSur == [done |-> FALSE]

\* Aabb::surrounding on three boxes, in both orders and both groupings
Surround(a, b, c) ==
    /\ ~sur.done
    /\ sur' = [done |-> TRUE, a |-> a, b |-> b, c |-> c,
               ab |-> Aabb_surrounding(a, b),
               ba |-> Aabb_surrounding(b, a),
               a_bc |-> Aabb_surrounding(a, Aabb_surrounding(b, c)),
               ab_c |-> Aabb_surrounding(Aabb_surrounding(a, b), c)]
    /\ UNCHANGED <<slab, ht, metal, px>>
    /\ UNCHANGED <<bvhVars, faceVars, boxVars, renderVars, rcVars>>

SurNext ==
    /\ ~sur.done
    /\ \E a \in SurBoxes : \E b \in SurBoxes : \E c \in SurBoxes : Surround(a, b, c)

\* box a fully contains box b
Contains(a, b) ==
    \A k \in Axes : FLe(a.minimum[k], b.minimum[k]) /\ FLe(b.maximum[k], a.maximum[k])

\* z is the least (the greatest) of x and y: one of them, and not above
\* (below) either; a NaN operand is not compared
IsLeast(z, x, y) == z \in {x, y} /\ ~FGt(z, x) /\ ~FGt(z, y) /\ (IsNaN(z) => IsNaN(x) /\ IsNaN(y))
IsGreatest(z, x, y) == z \in {x, y} /\ ~FLt(z, x) /\ ~FLt(z, y) /\ (IsNaN(z) => IsNaN(x) /\ IsNaN(y))

\* C11: Aabb::surrounding is commutative and associative, surrounding(a, b)
\* is a whenever a fully contains b, and on each axis the result's minimum is
\* the least of the two minima and its maximum the greatest of the two maxima.
C11_SurroundingAlgebra ==
    sur.done =>
        /\ sur.ab = sur.ba
        /\ sur.a_bc = sur.ab_c
        /\ Contains(sur.a, sur.b) => sur.ab = sur.a
        /\ \A k \in Axes :
               /\ IsLeast(sur.ab.minimum[k], sur.a.minimum[k], sur.b.minimum[k])
               /\ IsGreatest(sur.ab.maximum[k], sur.a.maximum[k], sur.b.maximum[k])

\* surrounding has been called on two boxes neither of which contains the
\* other, and on a box that contains another
C11_Witness ==
    /\ sur.done
    /\ ~Contains(sur.a, sur.b) /\ ~Contains(sur.b, sur.a)
    /\ sur.ab # sur.a /\ sur.ab # sur.b
    /\ Contains(sur.ab, sur.c) /\ sur.c # sur.ab
    /\ sur.ab_c = sur.ab

---------------------------------------------------------------------------
(* Aabb::hit on its own *)

\* the rays tested: from a grid of origins, along the axes and the diagonals
SlabOrigins == {<<x, y, z>> : x \in {-4, 0, 1}, y \in {-4, 0, 1}, z \in {-4, 0, 1}}
SlabDirections == {<<x, y, z>> : x \in {-1, 0, 1}, y \in {-1, 0, 1}, z \in {-1, 0, 1}} \ {Zero3}
SlabWindows == {<<0, PInf>>, <<0, 5>>, <<2, 4>>, <<5, 5>>}

NoSlab == [done |-> FALSE]

\* Aabb::hit(ray, t_min, t_max) on one box
AabbHit(aabb, origin, direction, w) ==
    /\ ~slab.done
    /\ slab' = [done |-> TRUE, aabb |-> aabb, ray |-> Ray_new(origin, direction),
                t_min |-> w[1], t_max |-> w[2],
                hit |-> Aabb_hit(aabb, Ray_new(origin, direction), w[1], w[2])]
    /\ UNCHANGED <<sur, ht, metal, px>>
    /\ UNCHANGED <<bvhVars, faceVars, boxVars, renderVars, rcVars>>

SlabNext ==
    /\ ~slab.done
    /\ \E aabb \in ProducedBoxes : \E origin \in SlabOrigins :
           \E direction \in SlabDirections : \E w \in SlabWindows :
               AabbHit(aabb, origin, direction, w)

\* the coordinate of the ray on axis k at the parameter t (direction not 0)
RayCoord(ray, t, k) == FAdd(ray.origin[k], FMul(t, ray.direction[k]))

\* On axis k the ray stays outside [minimum, maximum] for every parameter
\* strictly between t_min and t_max: there is no such parameter, or the
\* interval is empty, or the ray does not move on the axis and is outside, or
\* it moves and both ends of the window are on the same side of the interval.
StaysOutside(aabb, ray, t_min, t_max, k) ==
    \/ FLe(t_max, t_min)
    \/ FGt(aabb.minimum[k], aabb.maximum[k])
    \/ /\ ray.direction[k] = 0
       /\ FLt(ray.origin[k], aabb.minimum[k]) \/ FGt(ray.origin[k], aabb.maximum[k])
    \/ /\ ray.direction[k] # 0
       /\ \/ /\ FLe(RayCoord(ray, t_min, k), aabb.minimum[k])
             /\ FLe(RayCoord(ray, t_max, k), aabb.minimum[k])
          \/ /\ FLe(aabb.maximum[k], RayCoord(ray, t_min, k))
             /\ FLe(aabb.maximum[k], RayCoord(ray, t_max, k))

\* C12: if on some axis the ray stays outside the box's interval for all
\* parameters in the window, Aabb::hit returns false.
C12_OutsideNeverHits ==
    (slab.done /\ \E k \in Axes :
                      StaysOutside(slab.aabb, slab.ray, slab.t_min, slab.t_max, k))
        => ~slab.hit

\* Aabb::hit has returned false for a ray that moves on all three axes and,
\* inside a window that is not empty, stays outside the box on one axis only
C12_Witness ==
    /\ slab.done
    /\ ~slab.hit
    /\ FLt(slab.t_min, slab.t_max)
    /\ \A k \in Axes : slab.ray.direction[k] # 0
                       /\ FLt(slab.aabb.minimum[k], slab.aabb.maximum[k])
    /\ Cardinality({k \in Axes : StaysOutside(slab.aabb, slab.ray,
                                                 slab.t_min, slab.t_max, k)}) = 1

\* the slab interval [t0, t1] of axis k: the parameters at which the ray is
\* between the two planes of the box
SlabInterval(aabb, ray, k) ==
    LET inverse_distance == FDiv(1, ray.direction[k])
        a0 == FMul(FSub(aabb.minimum[k], ray.origin[k]), inverse_distance)
        a1 == FMul(FSub(aabb.maximum[k], ray.origin[k]), inverse_distance)
    IN  IF FLt(inverse_distance, 0) THEN <<a1, a0>> ELSE <<a0, a1>>

\* the running interval after the axes 1..k: [t_min, t_max] intersected with
\* the slab intervals of these axes
RECURSIVE Running(_, _, _, _, _)
RunningWith(iv, sl) ==
    <<IF FGt(sl[1], iv[1]) THEN sl[1] ELSE iv[1],
      IF FLt(sl[2], iv[2]) THEN sl[2] ELSE iv[2]>>
Running(aabb, ray, t_min, t_max, k) ==
    IF k = 0 THEN <<t_min, t_max>>
    ELSE RunningWith(Running(aabb, ray, t_min, t_max, k - 1), SlabInterval(aabb, ray, k))

EmptyInterval(iv) == FLe(iv[2], iv[1])

\* C19: Aabb::hit returns true exactly when the running interval, carried
\* across the three axes, is never empty: when [t_min, t_max] intersected
\* with all three slab intervals is not empty.
C19_RunningInterval ==
    slab.done =>
        (slab.hit <=> \A k \in Axes :
                          ~EmptyInterval(Running(slab.aabb, slab.ray,
                                                 slab.t_min, slab.t_max, k)))

---------------------------------------------------------------------------
(* Hittable::hit and Hittable::bounding_box on their own *)

\* the members of the lists tested: the two static spheres, the moving
\* sphere, the sphere with a NaN coordinate, the empty list (no box)
HitPrims ==
    { Sphere_new(<<0, 0, 0>>, 1, "lambertian"),
      Sphere_new(<<3, 0, 0>>, 1, "light"),
      Movable_moving(Sphere_new(<<0, 3, 0>>, 1, "metal"), <<0, 0, 0>>, 0, 1),
      Sphere_new(<<NaN, 0, 0>>, 1, "metal"),
      HittableList_new(Zero3) }

\* the lists of up to MaxLen members, in every order
HitLists ==
    {[HittableList_new(Zero3) EXCEPT !.hittables = hs] :
         hs \in UNION {[1..n -> HitPrims] : n \in 0..MaxLen}}

\* the Bvh nodes with two children: the trees Bvh::new(list, 0., 0.) returns
\* for the lists of two or more spheres
HitNodes ==
    {Unwrap(r.bvh) :
        r \in {x \in UNION {{Bvh_new(l, 0, 0, axes) :
                                axes \in AxisDraws(Len(l.hittables))} :
                            l \in {y \in HitLists : Len(y.hittables) >= 2}} :
                  x.res = "Ok"}}

\* spheres under a rotation together with a translation, and with a motion
OffsetHittables ==
    { Movable_with_rotation(Sphere_new(<<3, 0, 0>>, 1, "light"), RotY180),
      Movable_moving(Movable_with_rotation(Sphere_new(<<0, 3, 0>>, 1, "metal"), RotY180),
                     <<3, 0, 0>>, 0, 1) }

\* the hittables tested: the lists, the nodes, and each primitive on its own
\* under the offsets of BoxHittables and OffsetHittables
HitHittables == HitLists \cup HitNodes \cup BoxHittables \cup OffsetHittables

\* the rays tested: along the x axis in both directions and along the y
\* axis, at the times 0 and 1
HitRays ==
    ProbeRays \cup { Ray_new(<<0, -6, 0>>, <<0, 1, 0>>),
                     Ray_with_time(Ray_new(<<0, -6, 0>>, <<0, 1, 0>>), 1) }

\* the windows tested; 5 and 7 are the parameters at which the first ray
\* enters and leaves the unit sphere at the origin
HitWindows == ProbeWindows \cup {<<5, 7>>}

NoHit == [done |-> FALSE, boxed |-> FALSE]

\* Hittable::hit(ray, t_min, t_max) on one hittable: Offset::hit moves the
\* ray, calls hit_origin and moves the record back
Hit(h, ray, w) ==
    /\ ~ht.done
    /\ ht' = [done |-> TRUE, boxed |-> FALSE, h |-> h, ray |-> ray,
              t_min |-> w[1], t_max |-> w[2],
              offset_ray |-> Offset_hit_ray(h.center, ray),
              hit_origin |-> hit_origin(h, Offset_hit_ray(h.center, ray), w[1], w[2]),
              hit |-> Hittable_hit(h, ray, w[1], w[2])]
    /\ UNCHANGED <<sur, slab, metal, px>>
    /\ UNCHANGED <<bvhVars, faceVars, boxVars, renderVars, rcVars>>

\* Hittable::bounding_box(time0, time1) on the hittable tested
Box(t) ==
    /\ ht.done /\ ~ht.boxed
    /\ ht' = [boxed |-> TRUE, time0 |-> t[1], time1 |-> t[2],
              box_origin |-> bounding_box_origin(ht.h, t[1], t[2]),
              box |-> Hittable_bounding_box(ht.h, t[1], t[2])] @@ ht
    /\ UNCHANGED <<sur, slab, metal, px>>
    /\ UNCHANGED <<bvhVars, faceVars, boxVars, renderVars, rcVars>>

HitNext ==
    \/ /\ ~ht.done
       /\ \E h \in HitHittables : \E ray \in HitRays : \E w \in HitWindows : Hit(h, ray, w)
    \/ /\ ht.done
       /\ \E t \in BoxTimes : Box(t)

\* the answers of the members of a list, or of the children of a node, to
\* the ray that hit_origin is given, in the whole window
MemberHits(hs) ==
    [i \in 1..Len(hs) |-> Hittable_hit(hs[i], ht.offset_ray, ht.t_min, ht.t_max)]

\* no answer among hits is closer than the record r
Closest(r, hits) ==
    \A i \in 1..Len(hits) : IsSome(hits[i]) => ~FLt(Unwrap(hits[i]).t, r.t)

\* C13: HittableList::hit_origin returns None exactly when no member is hit
\* inside the window, and otherwise the record of a member, with the least t
\* among the hits of all members inside the window, in whatever order the
\* members are.
C13_ListClosest ==
    (ht.done /\ ht.h.type = "List") =>
        /\ ~IsSome(ht.hit_origin)
              <=> \A i \in 1..Len(ht.h.hittables) : ~IsSome(MemberHits(ht.h.hittables)[i])
        /\ IsSome(ht.hit_origin)
              => /\ \E i \in 1..Len(ht.h.hittables) :
                        MemberHits(ht.h.hittables)[i] = ht.hit_origin
                 /\ Closest(Unwrap(ht.hit_origin), MemberHits(ht.h.hittables))

\* the boxes of the members of the list tested
MemberBoxes(hs) ==
    [i \in 1..Len(hs) |-> Hittable_bounding_box(hs[i], ht.time0, ht.time1)]

\* x is the least (the greatest) of the values xs: one of them, not above
\* (below) any; a NaN value is not compared, and x is NaN only if all are
LeastOf(x, xs) == x \in xs /\ (\A y \in xs : ~FGt(x, y)) /\ (IsNaN(x) => xs = {NaN})
GreatestOf(x, xs) == x \in xs /\ (\A y \in xs : ~FLt(x, y)) /\ (IsNaN(x) => xs = {NaN})

\* box is the union of the boxes bs
UnionOf(box, bs) ==
    \A k \in Axes :
        /\ LeastOf(box.minimum[k], {Unwrap(bs[i]).minimum[k] : i \in 1..Len(bs)})
        /\ GreatestOf(box.maximum[k], {Unwrap(bs[i]).maximum[k] : i \in 1..Len(bs)})

\* C14: the box HittableList::bounding_box_origin returns is None if any
\* member has no bounding box, and for a list whose members all have one it
\* is the union of the members' boxes: on each axis the least of their
\* minima and the greatest of their maxima.
C14_ListBoxIsUnion ==
    (ht.boxed /\ ht.h.type = "List") =>
        /\ (\E i \in 1..Len(ht.h.hittables) : ~IsSome(MemberBoxes(ht.h.hittables)[i]))
              => ~IsSome(ht.box_origin)
        /\ (ht.h.hittables # <<>>
              /\ \A i \in 1..Len(ht.h.hittables) : IsSome(MemberBoxes(ht.h.hittables)[i]))
              => /\ IsSome(ht.box_origin)
                 /\ UnionOf(Unwrap(ht.box_origin), MemberBoxes(ht.h.hittables))

\* the box of a list of three members has been computed, and it is the box
\* of none of them
C14_Witness ==
    /\ ht.boxed /\ ht.h.type = "List"
    /\ Len(ht.h.hittables) = 3
    /\ IsSome(ht.box_origin)
    /\ \A i \in 1..3 : MemberBoxes(ht.h.hittables)[i] # ht.box_origin

\* C15: every record Hittable::hit(ray, t_min, t_max) returns has
\* t_min < t < t_max, both bounds excluded.
C15_StrictlyInsideWindow ==
    (ht.done /\ IsSome(ht.hit))
        => FLt(ht.t_min, Unwrap(ht.hit).t) /\ FLt(Unwrap(ht.hit).t, ht.t_max)

\* point p is inside the box
InBox(p, box) == \A k \in Axes : FLe(box.minimum[k], p[k]) /\ FLe(p[k], box.maximum[k])

\* C16: for a primitive under any Offset and any time0 <= time1, every hit
\* point that hit returns for a ray whose time lies in [time0, time1] is
\* inside the box that bounding_box(time0, time1) returns.
C16_BoxEnclosesHits ==
    (/\ ht.boxed /\ ht.h.type = "Sphere"
     /\ IsSome(ht.hit) /\ IsSome(ht.box)
     /\ FLe(ht.time0, ht.ray.time) /\ FLe(ht.ray.time, ht.time1))
        => InBox(Unwrap(ht.hit).point, Unwrap(ht.box))

Rotated(c, v) == IF IsSome(c.rotation) THEN RotMul(Unwrap(c.rotation), v) ELSE v

\* C25: the record hit returns for a hittable under any Offset is in world
\* space: its point is ray.at(t) for the ray given and the t returned, and
\* the point was moved back by what the ray was moved by.
C25_WorldSpacePoint ==
    (ht.done /\ IsSome(ht.hit)) =>
        /\ Unwrap(ht.hit).point = Ray_at(ht.ray, Unwrap(ht.hit).t)
        /\ Unwrap(ht.hit).t = Unwrap(ht.hit_origin).t
        /\ Rotated(ht.h.center, Unwrap(ht.hit).point)
               = VAdd(Unwrap(ht.hit_origin).point,
                      VSub(Rotated(ht.h.center, ht.ray.origin), ht.offset_ray.origin))

\* a ray of time 1 has hit a sphere that is rotated and moving
C25_Witness ==
    /\ ht.done /\ IsSome(ht.hit)
    /\ IsSome(ht.h.center.rotation) /\ IsSome(ht.h.center.moving)
    /\ ht.ray.time = 1
    /\ Offset_offset(ht.h.center, 1) # ht.h.center.offset_start

---------------------------------------------------------------------------
(* The constructors of Metal *)

\* SolidColor::new
SolidColor_new(color) == [color |-> color]

\* Metal::new: fuzz is kept when fuzz < 1. and replaced by 1. otherwise
Metal_new(albedo, fuzz) ==
    [albedo |-> albedo, fuzz |-> IF FLt(fuzz, 1) THEN fuzz ELSE 1]

\* Metal::solid_color: fuzz is stored as given
Metal_solid_color(albedo, fuzz) ==
    [albedo |-> SolidColor_new(albedo), fuzz |-> fuzz]

\* the colours and the fuzz arguments tried: below 0, inside [0, 1], above 1,
\* infinite and NaN
MetalColors == {<<r, g, b>> : r \in 0..1, g \in 0..1, b \in 0..1}
FuzzValues == ((-MaxCoord - 1)..(MaxCoord + 1)) \cup {NInf, TMin, PInf, NaN}

NoMetal == [done |-> FALSE]

\* one call of Metal::new with a SolidColor texture
MetalNew(color, fuzz) ==
    /\ ~metal.done
    /\ metal' = [done |-> TRUE, constructor |-> "new", arg |-> fuzz,
                 m |-> Metal_new(SolidColor_new(color), fuzz)]
    /\ UNCHANGED <<sur, slab, ht, px>>
    /\ UNCHANGED <<bvhVars, faceVars, boxVars, renderVars, rcVars>>

\* one call of Metal::solid_color
MetalSolidColor(color, fuzz) ==
    /\ ~metal.done
    /\ metal' = [done |-> TRUE, constructor |-> "solid_color", arg |-> fuzz,
                 m |-> Metal_solid_color(color, fuzz)]
    /\ UNCHANGED <<sur, slab, ht, px>>
    /\ UNCHANGED <<bvhVars, faceVars, boxVars, renderVars, rcVars>>

MetalNext ==
    \/ \E color \in MetalColors : \E fuzz \in FuzzValues : MetalNew(color, fuzz)
    \/ \E color \in MetalColors : \E fuzz \in FuzzValues : MetalSolidColor(color, fuzz)

\* C17: every Metal constructed, by Metal::new or by Metal::solid_color and
\* whatever the fuzz argument, holds a fuzz inside [0, 1].
C17_FuzzInUnitInterval ==
    metal.done => FLe(0, metal.m.fuzz) /\ FLe(metal.m.fuzz, 1)

---------------------------------------------------------------------------
(* Bvh::new on its own: the tree returned *)

\* the primitives pushed: the spheres of Prims, each of which has a box
TreePrims == {h \in Prims : h.type = "Sphere"}

\* the lists handed to Bvh::new: up to MaxLen primitives, in every order, in
\* a list created with each center
TreeLists ==
    {[HittableList_new(c) EXCEPT !.hittables = hs] :
         c \in ListCenters, hs \in UNION {[1..n -> TreePrims] : n \in 0..MaxLen}}

\* Bvh::new(list, time0, time1); axes are the values its calls draw
Tree(list, t, axes) ==
    /\ bvh = None
    /\ world' = list
    /\ bvh' = Some([Bvh_new(list, t[1], t[2], axes) EXCEPT !.rest = <<>>]
                   @@ [time0 |-> t[1], time1 |-> t[2], axes |-> axes])
    /\ UNCHANGED probe
    /\ UNCHANGED <<faceVars, boxVars, renderVars, rcVars, callVars>>

\* the values of (time0, time1) Bvh::new is called with
TreeTimes == {<<0, 0>>, <<0, 1>>}

TreeNext ==
    /\ bvh = None
    /\ \E list \in TreeLists : \E t \in TreeTimes :
           \E axes \in AxisDraws(Len(list.hittables)) : Tree(list, t, axes)

\* the tree returned
TheTree == Unwrap(Unwrap(bvh).bvh)

\* the Bvh nodes of the tree below b, b included
RECURSIVE TreeNodes(_)
TreeNodes(b) ==
    IF b.type = "Bvh"
    THEN {b} \cup UNION {TreeNodes(b.subnode[i]) : i \in 1..Len(b.subnode)}
    ELSE {}

\* the primitives at the leaf positions below b, from left to right
RECURSIVE Leaves(_)
Leaves(b) ==
    IF b.type # "Bvh" THEN <<b>>
    ELSE IF Len(b.subnode) = 1 THEN Leaves(b.subnode[1])
    ELSE Leaves(b.subnode[1]) \o Leaves(b.subnode[2])

\* the number of positions of the sequence s that hold x
Count(x, s) == Cardinality({i \in 1..Len(s) : s[i] = x})

\* the sequences s and t hold the same members, each as many times
SameMembers(s, t) ==
    /\ Len(s) = Len(t)
    /\ \A i \in 1..Len(s) : Count(s[i], s) = Count(s[i], t)

\* no coordinate of the box is NaN
IsNumbers(box) == \A k \in Axes : ~IsNaN(box.minimum[k]) /\ ~IsNaN(box.maximum[k])

\* C21: in every Bvh returned by Bvh::new(list, time0, time1), the cached
\* aabb of each node is the union of the bounding boxes of its children over
\* [time0, time1], and contains the bounding box of every primitive below it
\* (of those whose box has no NaN coordinate: a box with one contains no
\* box, itself included).
C21_NodeBoxIsUnion ==
    BuiltOk =>
        \A node \in TreeNodes(TheTree) :
            /\ UnionOf(node.aabb,
                       [i \in 1..Len(node.subnode) |->
                            Hittable_bounding_box(node.subnode[i],
                                                  Unwrap(bvh).time0, Unwrap(bvh).time1)])
            /\ \A i \in 1..Len(Leaves(node)) :
                   LET box == Unwrap(Hittable_bounding_box(Leaves(node)[i],
                                                           Unwrap(bvh).time0, Unwrap(bvh).time1))
                   IN  IsNumbers(box) => Contains(node.aabb, box)

\* the coordinate cmp_box compares: the minimum on the axis of the box at
\* the times (0, 0)
BoxKey(h, axis) == Unwrap(Hittable_bounding_box(h, 0, 0)).minimum[axis]

\* the position of member i in the stable order by the keys: behind the
\* members with a smaller key and the earlier members with the same key
Rank(keys, i) ==
    Cardinality({j \in 1..Len(keys) : FLt(keys[j], keys[i])})
        + Cardinality({j \in 1..i : keys[j] = keys[i]})

\* hs in that order
Ranked(hs, axis) ==
    LET keys == [i \in 1..Len(hs) |-> BoxKey(hs[i], axis)]
    IN  [r \in 1..Len(hs) |-> hs[CHOOSE i \in 1..Len(hs) : Rank(keys, i) = r]]

\* the children of a node made of the two primitives pair: the one with the
\* smaller key on the left, in the order of pair when the keys are equal
PairRule(subnode, pair, axis) ==
    subnode = IF FGt(BoxKey(pair[1], axis), BoxKey(pair[2], axis))
              THEN <<pair[2], pair[1]>>
              ELSE pair

\* child c of the root holds the members of half; when they are two, it
\* orders them by the axis its own call draws
HalfRule(child, half, axis) ==
    /\ SameMembers(Leaves(child), half)
    /\ Len(half) = 2 => PairRule(child.subnode, half, axis)

\* C22: for n >= 3 primitives the left subtree holds the first n / 2 members
\* of the list in the stable order by the minimum of the box on the axis
\* drawn and the right subtree the others, no member on the left having a
\* larger minimum than one on the right; two primitives are ordered by their
\* minima, in their original order when these are equal.
C22_SortedSplit ==
    (BuiltOk /\ Len(world.hittables) >= 2) =>
        LET hs == world.hittables
            n == Len(hs)
            axes == Unwrap(bvh).axes
            sorted == Ranked(hs, axes[1])
            mid == n \div 2
        IN  IF n = 2 THEN PairRule(TheTree.subnode, hs, axes[1])
            ELSE /\ Len(TheTree.subnode) = 2
                 /\ HalfRule(TheTree.subnode[1], SubSeq(sorted, 1, mid),
                             IF mid >= 2 THEN axes[2] ELSE 1)
                 /\ HalfRule(TheTree.subnode[2], SubSeq(sorted, mid + 1, n),
                             axes[2 + BvhCalls(mid)])
                 /\ LET left == Leaves(TheTree.subnode[1])
                        right == Leaves(TheTree.subnode[2])
                        l == [i \in 1..Len(left) |-> BoxKey(left[i], axes[1])]
                        r == [j \in 1..Len(right) |-> BoxKey(right[j], axes[1])]
                    IN  \A i \in 1..Len(left) : \A j \in 1..Len(right) : FLe(l[i], r[j])

\* Bvh::new has returned the tree of three primitives of which the first
\* pushed has the largest minimum on the axis drawn and the other two, which
\* differ, the same one
C22_Witness ==
    /\ BuiltOk
    /\ Len(world.hittables) = 3
    /\ BoxKey(world.hittables[2], Unwrap(bvh).axes[1])
           = BoxKey(world.hittables[3], Unwrap(bvh).axes[1])
    /\ world.hittables[2] # world.hittables[3]
    /\ FGt(BoxKey(world.hittables[1], Unwrap(bvh).axes[1]),
           BoxKey(world.hittables[2], Unwrap(bvh).axes[1]))

\* no call of Bvh::new below node read a NaN: axes are the values drawn from
\* the call that made node on
RECURSIVE NoNaNCompared(_, _)
NoNaNCompared(node, axes) ==
    IF node.type # "Bvh" \/ Len(node.subnode) = 1 THEN TRUE
    ELSE /\ \A i \in 1..Len(Leaves(node)) : ~IsNaN(BoxKey(Leaves(node)[i], axes[1]))
         /\ NoNaNCompared(node.subnode[1], Tail(axes))
         /\ NoNaNCompared(node.subnode[2],
                          SubSeq(axes, 2 + BvhCalls(Len(Leaves(node.subnode[1]))), Len(axes)))

\* C26: Bvh::new returns no tree in which a call compared a minimum that is
\* NaN; on two or more members with a box, of which one has a NaN minimum on
\* the axis the first call draws, it panics.
C26_NaNPanics ==
    (Built /\ \A m \in Members : HasBox(m)) =>
        /\ BuiltOk => NoNaNCompared(TheTree, Unwrap(bvh).axes)
        /\ (/\ Len(world.hittables) >= 2
            /\ \E m \in Members : IsNaN(BoxKey(m, Unwrap(bvh).axes[1])))
               => (Unwrap(bvh).res = "Panic" /\ Unwrap(bvh).bvh = None)

\* Bvh::new has panicked in its second call, on a NaN minimum that the axis
\* of the first call did not meet
C26_Witness ==
    /\ Built
    /\ Unwrap(bvh).res = "Panic"
    /\ Len(world.hittables) = 3
    /\ \A m \in Members : HasBox(m) /\ ~IsNaN(BoxKey(m, Unwrap(bvh).axes[1]))

\* C28: in every Bvh returned, each primitive of the list is at one leaf
\* position and the tree has no other leaf; a node made from three or more
\* primitives has two subtrees, each with at least one and with fewer.
C28_EveryPrimitiveOnce ==
    BuiltOk =>
        /\ SameMembers(Leaves(TheTree), world.hittables)
        /\ \A node \in TreeNodes(TheTree) :
               Len(Leaves(node)) >= 3 =>
                   /\ Len(node.subnode) = 2
                   /\ \A c \in 1..2 :
                          /\ node.subnode[c].type = "Bvh"
                          /\ Len(Leaves(node.subnode[c])) \in 1..(Len(Leaves(node)) - 1)

\* Bvh::new has returned the tree of a list of three that holds one
\* primitive twice
C28_Witness ==
    /\ BuiltOk
    /\ Len(world.hittables) = 3
    /\ world.hittables[1] = world.hittables[3]
    /\ world.hittables[1] # world.hittables[2]

\* the offsets the ray is moved by between the root and each primitive: the
\* sum of the centers of the Bvh nodes passed
RECURSIVE PathOffsets(_, _)
PathOffsets(b, sum) ==
    IF b.type # "Bvh" THEN {sum}
    ELSE UNION {PathOffsets(b.subnode[i], VAdd(sum, b.center.offset_start)) :
                    i \in 1..Len(b.subnode)}

\* C29: in the Bvh built from a list, the ray is moved by the list's center
\* once on its way from the root to any primitive, as HittableList::hit
\* moves it.
C29_OffsetOnce ==
    BuiltOk => PathOffsets(TheTree, Zero3) = {world.center.offset_start}

---------------------------------------------------------------------------
(* Scenes, cameras and configurations of the renderer *)

\* the largest max_depth and samples_per_pixel configured
MaxDepth == 2
MaxSamples == 2

\* the world holding the given hittables
World(hittables) == [HittableList_new(Zero3) EXCEPT !.hittables = hittables]

\* the worlds rendered: empty; spheres with each material; one with a member
\* that has no bounding box; one with a NaN coordinate; one with a sphere
\* moving over the times 0 to 1
RenderWorlds ==
    { World(<<>>),
      World(<<Sphere_new(<<0, 0, 0>>, 1, "lambertian")>>),
      World(<<Sphere_new(<<0, 0, 0>>, 1, "lambertian"),
              Sphere_new(<<3, 0, 0>>, 1, "light")>>),
      World(<<Sphere_new(<<0, 0, 0>>, 1, "dielectric"),
              Sphere_new(<<3, 0, 0>>, 1, "light")>>),
      World(<<Sphere_new(<<0, 0, 0>>, 1, "lambertian"), HittableList_new(Zero3)>>),
      World(<<Sphere_new(<<0, 0, 0>>, 1, "lambertian"),
              Sphere_new(<<NaN, 0, 0>>, 1, "metal")>>),
      World(<<Movable_moving(Sphere_new(<<0, 3, 0>>, 1, "metal"), <<0, 0, 0>>, 0, 1),
              Sphere_new(<<3, 0, 0>>, 1, "light")>>) }

\* the outcomes of Bvh::new(world, 0., 0.) over the axes it can draw
BvhOutcomes(w) ==
    {Bvh_new(w, 0, 0, axes) : axes \in AxisDraws(Len(w.hittables))}

\* the world_option values ray_color is called with: what
\* render_multithreaded builds, and the HittableList of
\* render_multithreaded_without_bvh
WorldOptions(w) ==
    {HittableListOptions_Bvh(Unwrap(r.bvh)) : r \in {o \in BvhOutcomes(w) : o.res = "Ok"}}
        \cup {HittableListOptions_HittableList(w)}

Backgrounds == {BLACK, <<1, 2, 3>>}

\* the cameras: without and with an exposure, Camera::with_time(0., 2.)
Cameras == {[time |-> None], [time |-> Some(<<0, 2>>)]}

\* The ray of Camera::get_ray before its time is set, as a function of the
\* sample position.  u and v are given in half pixels (twice the i + gen() and
\* j + gen() of the render loop).  The rays are the ones the arithmetic of the
\* model is exact on: parallel to the x axis, from either side, at integer
\* heights.
View(u, v) ==
    Ray_new(<<IF u % 2 = 0 THEN -6 ELSE 6, v + 2 * (u \div 2), 0>>,
            <<IF u % 2 = 0 THEN 1 ELSE -1, 0, 0>>)

\* Camera::get_ray; draw is twice the value of rng.gen() at line 99
Camera_get_ray(camera, u, v, draw) ==
    IF IsSome(camera.time)
    THEN Ray_with_time(View(u, v),
                       FAdd(Unwrap(camera.time)[1],
                            FDiv(FMul(draw, FSub(Unwrap(camera.time)[2],
                                                 Unwrap(camera.time)[1])), 2)))
    ELSE View(u, v)

\* the number of values get_ray takes from the thread's generator: the lens
\* disk (one rejection loop) and the time
GetRayDraws(camera) == IF IsSome(camera.time) THEN 2 ELSE 1

---------------------------------------------------------------------------
(* ray_color on its own: one camera ray at a time *)

\* the sample positions of the camera rays traced, in half pixels
SamplePositions == 0..3

RayColorCalls ==
    { ray_color_call(o, Camera_get_ray(camera, u, v, draw), background, depth, s) :
          o \in UNION {WorldOptions(w) : w \in RenderWorlds},
          camera \in Cameras, u \in {0, 1}, v \in SamplePositions, draw \in {0, 1},
          background \in Backgrounds, depth \in 0..MaxDepth, s \in 0..(RngPeriod - 1) }

\* no call made yet
NoCall ==
    [stack |-> <<>>, ret |-> None, depth |-> 0, hits |-> 0, underflow |-> FALSE,
     last |-> NoLast]

\* the call of ray_color by the sample loop, lines 137-142
RayColorCall(call) ==
    /\ rc = NoCall
    /\ rc' = call
    /\ UNCHANGED <<bvhVars, faceVars, boxVars, renderVars, callVars>>

\* lines 202-204
RayColorDepth0 ==
    /\ ~ray_color_done(rc) /\ ~IsSome(rc.ret) /\ Top(rc).depth = 0
    /\ rc' = ray_color_step(rc)
    /\ UNCHANGED <<bvhVars, faceVars, boxVars, renderVars, callVars>>

\* lines 207-222, up to the recursive call or the return
RayColorBvh ==
    /\ ~ray_color_done(rc) /\ ~IsSome(rc.ret) /\ Top(rc).depth # 0
    /\ rc.world_option.kind = "Bvh"
    /\ rc' = ray_color_step(rc)
    /\ UNCHANGED <<bvhVars, faceVars, boxVars, renderVars, callVars>>

\* lines 223-238, up to the recursive call or the return
RayColorList ==
    /\ ~ray_color_done(rc) /\ ~IsSome(rc.ret) /\ Top(rc).depth # 0
    /\ rc.world_option.kind = "HittableList"
    /\ rc' = ray_color_step(rc)
    /\ UNCHANGED <<bvhVars, faceVars, boxVars, renderVars, callVars>>

\* the return of a call whose recursive call has returned
RayColorReturn ==
    /\ ~ray_color_done(rc) /\ IsSome(rc.ret)
    /\ rc' = ray_color_step(rc)
    /\ UNCHANGED <<bvhVars, faceVars, boxVars, renderVars, callVars>>

\* the steps of a call in progress
RayColorRun ==
    \/ RayColorDepth0
    \/ RayColorBvh
    \/ RayColorList
    \/ RayColorReturn

RayColorNext ==
    \/ \E call \in RayColorCalls : RayColorCall(call)
    \/ RayColorRun

\* what the last return of ray_color must be on a hit, given the answer of
\* scatter
C7_OnHit(l, hit, scatter) ==
    IF IsSome(scatter)
    THEN /\ l.case = "scattered"
         /\ l.child.ray = Unwrap(scatter).ray
         /\ l.child.depth = l.depth - 1
         /\ l.value = CAdd(Material_emit(hit.material),
                           CMul(Unwrap(scatter).attenuation, l.child.value))
    ELSE /\ l.case = "absorbed"
         /\ l.value = Material_emit(hit.material)

C7_OnAnswer(l, hit) ==
    IF IsSome(hit)
    THEN C7_OnHit(l, Unwrap(hit),
                  Material_scatter(Unwrap(hit).material, l.ray, Unwrap(hit), l.draw))
    ELSE l.case = "miss" /\ l.value = rc.background

\* C7: for depth >= 1, a call of ray_color returns the background when the
\* ray hits nothing; on a hit, emitted + attenuation * (the color returned by
\* ray_color for the scattered ray at depth - 1) when the material scatters,
\* and emitted when it does not; under the Bvh option and under the
\* HittableList option alike.
C7_ReturnedColor ==
    (rc.last.case # "none" /\ rc.last.depth >= 1)
        => /\ rc.world_option.kind \in {"Bvh", "HittableList"}
           /\ Unwrap(rc.ret) = rc.last.value
           /\ C7_OnAnswer(rc.last, Hittable_hit(rc.world_option.world,
                                                rc.last.ray, TMin, PInf))

\* a call at depth 2 or more has returned a color other than black that it
\* got by attenuating the color of its scattered ray
C7_Witness ==
    /\ rc.last.case = "scattered"
    /\ rc.last.depth >= 2
    /\ rc.last.child.value # BLACK
    /\ rc.last.value # rc.last.child.value

C8_Bounded ==
    /\ ~rc.underflow
    /\ rc.hits <= rc.depth
    /\ Len(rc.stack) <= rc.depth + 1
    /\ \A i \in 1..Len(rc.stack) : rc.stack[i].depth = rc.depth - (i - 1)

\* a measure of what a call has left to do: twice the depth of the call on
\* top of the stack while it has not made its hit test, plus the calls on the
\* stack
C8_Variant(m) ==
    IF m.stack # <<>> /\ ~IsSome(m.ret)
    THEN 2 * Top(m).depth + Len(m.stack) + 1
    ELSE Len(m.stack)

\* C8: every call ray_color(ray, depth) returns: each of its steps lowers a
\* measure that is never negative, so it makes at most 2 * depth + 2 steps;
\* each recursive call passes depth - 1 (the i-th call on the stack has
\* depth - (i - 1)), no depth underflows, and at most depth hit tests are made.
C8_Terminates ==
    [][/\ C8_Bounded'
       /\ C8_Variant(rc') >= 0
       /\ C8_Variant(rc') <= 2 * rc'.depth + 2
       /\ rc # NoCall => C8_Variant(rc') < C8_Variant(rc)]_vars

\* a call with depth >= 2 has returned after exactly depth hit tests, its
\* recursion having reached depth 0
C8_Witness ==
    /\ ray_color_done(rc)
    /\ rc.depth >= 2
    /\ rc.hits = rc.depth
    /\ rc.last.case = "scattered"
    /\ Unwrap(rc.ret) = BLACK

---------------------------------------------------------------------------
(* Raytracer::render *)

\* the largest number of pixels of an image, and the number of worker
\* threads of the rayon pool
MaxPixels == 2
NumThreads == 2

Threads == 1..NumThreads

\* the image sizes (image_width, image_height) rendered
Sizes == {wh \in (0..MaxPixels) \X (0..MaxPixels) : wh[1] * wh[2] <= MaxPixels}

\* the scenes rendered: each world with a camera without exposure, and the
\* world with the moving sphere with an exposure as well
Scenes ==
    {[world |-> w, camera |-> [time |-> None]] : w \in RenderWorlds}
        \cup {[world |-> w, camera |-> [time |-> Some(<<0, 2>>)]] :
                 w \in {x \in RenderWorlds :
                           \E i \in 1..Len(x.hittables) : IsSome(x.hittables[i].center.moving)}}

\* the Raytracer values rendered
Raytracers ==
    {[world |-> sc.world, camera |-> sc.camera, background |-> background,
      image_width |-> wh[1], image_height |-> wh[2],
      samples_per_pixel |-> samples_per_pixel, max_depth |-> max_depth] :
        sc \in Scenes, background \in Backgrounds, wh \in Sizes,
        samples_per_pixel \in 0..MaxSamples, max_depth \in 0..MaxDepth}

\* the state every thread's generator starts a render in
Seed == 0

\* A slot of the pixel buffer.  The value of a channel is num / den, and its
\* square root when root is set: line 151 is recorded, not computed, so that
\* no rounding is modelled.  color![0., 0., 0.] is 0 / 1.
Slot(num, den, root) == [num |-> num, den |-> den, root |-> root]
Slot0 == Slot(BLACK, 1, FALSE)

\* lines 149-152: each channel divided by samples_per_pixel, then its root
GammaCorrected(color, samples_per_pixel) == Slot(color, samples_per_pixel, TRUE)

\* the channel values of a slot are all 0.0 (and not NaN, as 0 / 0 is)
IsBlack(slot) == slot.num = BLACK /\ slot.den # 0

ThreadIdle == [pc |-> "idle"]

\* a variant of the buffer length that takes the width twice
PixelCountSquare(r) == r.image_width * r.image_width

\* line 124: image_height as usize * image_width as usize
PixelCount(r) == r.image_height * r.image_width

\* a variant of the pairing of enumerate() that hands every invocation the
\* first slot
EnumeratedSlotFirst(index) == 0

\* par_iter_mut().enumerate(): the slot that the invocation for index is
\* given as `color`
EnumeratedSlot(index) == index

\* lines 134-143, the sample loop from its k-th last pass on: color is the
\* slot's value, s the state of the thread's generator
RECURSIVE SampleLoop(_, _, _, _, _)
SampleLoopNext(k, color, i, j, m) ==
    SampleLoop(k - 1, CAdd(color, Unwrap(m.ret)), m.rng, i, j)

SampleLoop(k, color, s, i, j) ==
    IF k = 0 THEN [color |-> color, rng |-> s]
    ELSE SampleLoopNext(k, color, i, j,
             ray_color(Unwrap(option),
                       Camera_get_ray(cfg.camera,
                                      2 * i + Gen(s),
                                      2 * j + Gen(RngSkip(s, 1)),
                                      Gen(RngSkip(s, 1 + GetRayDraws(cfg.camera)))),
                       cfg.background, cfg.max_depth,
                       RngSkip(s, 2 + GetRayDraws(cfg.camera))))

\* lines 112-124, given what Bvh::new returns: the world_option, or the panic
\* of expect("creating BVH") or of Bvh::new itself; then the buffer of
\* image_height * image_width black colors
BuildWith(r) ==
    /\ phase' = IF r.res = "Ok" THEN "pixels" ELSE "panic"
    /\ option' = IF r.res = "Ok" THEN Some(HittableListOptions_Bvh(Unwrap(r.bvh)))
                 ELSE None
    /\ colors' = IF r.res = "Ok"
                 THEN [k \in 1..PixelCount(cfg) |-> Slot0]
                 ELSE <<>>

\* lines 112-124.  check_hittable_list returns a bool; the arm named Ok(())
\* is taken on true, the arm named Err(BoundingBoxError) on false.
Build(axes) ==
    /\ phase = "new"
    /\ IF Bvh_check_hittable_list(cfg.world)
       THEN BuildWith(Bvh_new(cfg.world, 0, 0, axes))
       ELSE /\ phase' = "pixels"
            /\ option' = Some(HittableListOptions_HittableList(cfg.world))
            /\ colors' = [k \in 1..PixelCount(cfg) |-> Slot0]
    /\ claimed' = [k \in 1..PixelCount(cfg) |-> <<>>]
    /\ writers' = [k \in 1..PixelCount(cfg) |-> {}]
    /\ UNCHANGED <<cfg, thr, rng, first>>
    /\ UNCHANGED <<bvhVars, faceVars, boxVars, rcVars, callVars>>

\* rayon hands the item of an index to a thread of the pool: any idle thread
\* may get any index not handed out yet
Claim(t, index) ==
    /\ phase = "pixels"
    /\ thr[t].pc = "idle"
    /\ claimed[index + 1] = <<>>
    /\ claimed' = [claimed EXCEPT ![index + 1] = Append(@, t)]
    /\ thr' = [thr EXCEPT ![t] = [pc |-> "closure", index |-> index]]
    /\ UNCHANGED <<cfg, option, colors, writers, rng, phase, first>>
    /\ UNCHANGED <<bvhVars, faceVars, boxVars, rcVars, callVars>>

\* the end of the closure for index on thread t, given the outcome of its
\* sample loop: the slot written, the generator advanced
PixelWrite(t, index, slot, r) ==
    /\ colors' = [colors EXCEPT ![slot + 1] =
                     GammaCorrected(r.color, cfg.samples_per_pixel)]
    /\ writers' = [writers EXCEPT ![slot + 1] = @ \cup {index}]
    /\ rng' = [rng EXCEPT ![t] = r.rng]
    /\ thr' = [thr EXCEPT ![t] = ThreadIdle]

\* lines 129-153: the closure of for_each for one index, on thread t
Pixel(t) ==
    /\ phase = "pixels"
    /\ thr[t].pc = "closure"
    /\ PixelWrite(t, thr[t].index, EnumeratedSlot(thr[t].index),
                  SampleLoop(cfg.samples_per_pixel,
                             colors[EnumeratedSlot(thr[t].index) + 1].num,
                             rng[t],
                             thr[t].index % cfg.image_width,
                             cfg.image_height - (thr[t].index \div cfg.image_width) - 1))
    /\ UNCHANGED <<cfg, option, claimed, phase, first>>
    /\ UNCHANGED <<bvhVars, faceVars, boxVars, rcVars, callVars>>

\* every index was handed out and every closure has returned
AllProcessed ==
    /\ \A k \in 1..Len(claimed) : claimed[k] # <<>>
    /\ \A t \in Threads : thr[t].pc = "idle"

\* lines 155 and 90-96: for_each returns, render returns the buffer
Return ==
    /\ phase = "pixels"
    /\ AllProcessed
    /\ phase' = "done"
    /\ UNCHANGED <<cfg, option, colors, claimed, writers, thr, rng, first>>
    /\ UNCHANGED <<bvhVars, faceVars, boxVars, rcVars, callVars>>

\* a second render of the same Raytracer value, with the same world_option
\* and with every thread's generator back in the state it started the first
\* render in; first keeps the buffer of the first render
Rerender ==
    /\ phase = "done"
    /\ first = None
    /\ first' = Some(colors)
    /\ phase' = "pixels"
    /\ colors' = [k \in 1..Len(colors) |-> Slot0]
    /\ claimed' = [k \in 1..Len(colors) |-> <<>>]
    /\ writers' = [k \in 1..Len(colors) |-> {}]
    /\ rng' = [t \in Threads |-> Seed]
    /\ UNCHANGED <<cfg, option, thr>>
    /\ UNCHANGED <<bvhVars, faceVars, boxVars, rcVars, callVars>>

RenderNext ==
    \/ \E axes \in AxisDraws(Len(cfg.world.hittables)) : Build(axes)
    \/ \E t \in Threads : \E index \in 0..(Len(claimed) - 1) : Claim(t, index)
    \/ \E t \in Threads : Pixel(t)
    \/ Return

RerenderNext ==
    \/ RenderNext
    \/ Rerender

\* what Bvh::check_hittable_list and cmp_box see of the world rendered
Unbounded(w) == \E i \in 1..Len(w.hittables) : ~HasBox(w.hittables[i])
NaNMinimum(w) == \E i \in 1..Len(w.hittables) : HasNaNMin(w.hittables[i])

\* for_each has something to do or has returned
CanProceed ==
    \/ \E t \in Threads : thr[t].pc = "closure"
    \/ \E t \in Threads : \E k \in 1..Len(claimed) :
           thr[t].pc = "idle" /\ claimed[k] = <<>>
    \/ AllProcessed

\* what render does on any world short of panicking: it builds the Bvh or
\* falls back to the HittableList, and returns image_width * image_height
\* colors
C3_Renders ==
    /\ phase \in {"pixels", "done"}
          => /\ Len(colors) = cfg.image_width * cfg.image_height
             /\ Unwrap(option).kind =
                    IF cfg.world.hittables = <<>> \/ Unbounded(cfg.world)
                    THEN "HittableList" ELSE "Bvh"
             /\ Unwrap(option).kind = "HittableList"
                    => Unwrap(option).world = cfg.world
    /\ phase = "pixels" => CanProceed

\* C3 (as stated): render on any world completes and returns a buffer of
\* image_width * image_height colors; when the Bvh cannot be built it renders
\* with the HittableList; nothing aborts the render.
C3_NeverAborts ==
    /\ C3_Renders
    /\ phase # "panic"

\* C3 (amended): render on any world none of whose bounding boxes has a NaN
\* minimum completes and returns a buffer of image_width * image_height
\* colors, rendering with the HittableList when the world is empty or has a
\* member without a bounding box; the render aborts only by the panic of
\* cmp_box inside Bvh::new, on a world of two or more members that all have
\* a box, one with a NaN minimum.
C3_AbortsOnNaNOnly ==
    /\ C3_Renders
    /\ phase = "panic"
          => /\ Len(cfg.world.hittables) >= 2
             /\ ~Unbounded(cfg.world)
             /\ NaNMinimum(cfg.world)

\* a render of two pixels has returned, of a world with a member without a
\* bounding box, rendered with the HittableList
C3_Witness ==
    /\ phase = "done"
    /\ Unbounded(cfg.world)
    /\ Unwrap(option).kind = "HittableList"
    /\ Len(colors) = 2
    /\ cfg.samples_per_pixel >= 1 /\ cfg.max_depth >= 1

\* C4: every pixel index is handed to at most one closure invocation, and to
\* exactly one once for_each has returned; the slot of an index is written by
\* the invocation for that index and by no other, and is written once
\* for_each has returned.
C4_OneWriterPerSlot ==
    phase \in {"pixels", "done"}
        => /\ Len(claimed) = cfg.image_width * cfg.image_height
           /\ \A k \in 1..Len(claimed) :
                  /\ Len(claimed[k]) <= 1
                  /\ writers[k] \subseteq {k - 1}
                  /\ writers[k] # {} => claimed[k] # <<>>
                  /\ phase = "done" => (Len(claimed[k]) = 1 /\ writers[k] = {k - 1})

\* a render of two pixels has returned whose pixels were processed by two
\* different threads
C4_Witness ==
    /\ phase = "done"
    /\ Len(claimed) = 2
    /\ claimed[1] # claimed[2]
    /\ cfg.image_height = 2
    /\ cfg.samples_per_pixel >= 1

\* C5: the second render of the same Raytracer, with every generator back in
\* its starting state, returns the buffer the first render returned, whatever
\* the assignment of pixels to threads.
C5_SameBuffer ==
    (phase = "done" /\ IsSome(first)) => colors = Unwrap(first)

\* C6: with max_depth = 0, every pixel of the buffer render returns is black.
C6_BlackAtDepth0 ==
    (phase = "done" /\ cfg.max_depth = 0)
        => \A k \in 1..Len(colors) : IsBlack(colors[k])

\* the worlds with a moving sphere, alone and next to a sphere at rest
ShutterWorlds ==
    { World(<<Movable_moving(Sphere_new(<<0, 3, 0>>, 1, "light"), <<0, 0, 0>>, 0, 1)>>),
      World(<<Movable_moving(Sphere_new(<<0, 3, 0>>, 1, "metal"), <<0, 0, 0>>, 0, 1),
              Sphere_new(<<3, 0, 0>>, 1, "light")>>) }

\* the Raytracer values rendered with an exposure, Camera::with_time(0., 2.)
ShutterRaytracers ==
    {[world |-> w, camera |-> [time |-> Some(<<0, 2>>)], background |-> background,
      image_width |-> wh[1], image_height |-> wh[2],
      samples_per_pixel |-> samples_per_pixel, max_depth |-> max_depth] :
        w \in ShutterWorlds, background \in Backgrounds, wh \in Sizes,
        samples_per_pixel \in 0..MaxSamples, max_depth \in 0..MaxDepth}

\* the times Camera::get_ray stamps its rays with, over the values of
\* rng.gen() drawn
ShutterTimes(camera) == {Camera_get_ray(camera, 0, 0, draw).time : draw \in 0..1}

\* the moving primitives below the node b, b itself if it is one
RECURSIVE MovingBelow(_)
MovingBelow(b) ==
    IF b.type = "Bvh"
    THEN UNION {MovingBelow(b.subnode[i]) : i \in 1..Len(b.subnode)}
    ELSE IF IsSome(b.center.moving) THEN {b} ELSE {}

\* the nodes of the tree below b, b included
RECURSIVE NodesBelow(_)
NodesBelow(b) ==
    IF b.type = "Bvh"
    THEN {b} \cup UNION {NodesBelow(b.subnode[i]) : i \in 1..Len(b.subnode)}
    ELSE {}

\* C20: in the Bvh that render builds, for every time the camera stamps a
\* ray with, the position at that time of every moving primitive is inside
\* the cached box of each node above it.
C20_BoxesCoverShutter ==
    (phase \in {"pixels", "done"} /\ Unwrap(option).kind = "Bvh") =>
        \A node \in NodesBelow(Unwrap(option).world) :
            \A p \in MovingBelow(node) :
                \A time \in ShutterTimes(cfg.camera) :
                    InBox(Offset_offset(p.center, time), node.aabb)

---------------------------------------------------------------------------
(* The pixel coordinates of a buffer index, in the closure of              *)
(* render_multithreaded                                                    *)

\* the largest image_width and image_height of the buffers indexed
MaxSide == 3

\* usize subtraction a - b: the difference, and whether it underflows
USub(a, b) == [value |-> a - b, underflow |-> a < b]
\* the subtraction of b from the outcome d of a subtraction
USubThen(d, b) == [value |-> d.value - b, underflow |-> d.underflow \/ d.value < b]

\* line 131: index % self.image_width as usize
pixel_i(index, r) == index % r.image_width

\* a variant of line 132 without the last subtraction
pixel_j_from_one(index, r) ==
    USubThen(USub(r.image_height, index \div r.image_width), 0)

\* line 132: self.image_height as usize - index / self.image_width as usize - 1
pixel_j(index, r) ==
    USubThen(USub(r.image_height, index \div r.image_width), 1)

\* the buffers indexed: line 124 for each image size, no coordinates
\* computed yet
PixelBuffers ==
    {[image_width |-> w, image_height |-> h,
      coords |-> [k \in 1..PixelCount([image_width |-> w, image_height |-> h]) |-> None]] :
         w \in 0..MaxSide, h \in 0..MaxSide}

\* lines 131-132 in the closure invocation for index, in whatever order
\* rayon runs the invocations
Coordinates(index) ==
    /\ px.coords[index + 1] = None
    /\ px' = [px EXCEPT !.coords[index + 1] =
                 Some([i |-> pixel_i(index, px), j |-> pixel_j(index, px)])]
    /\ UNCHANGED <<sur, slab, ht, metal>>
    /\ UNCHANGED <<bvhVars, faceVars, boxVars, renderVars, rcVars>>

PixelNext == \E index \in 0..(Len(px.coords) - 1) : Coordinates(index)

\* the indices whose coordinates are computed
Computed == {index \in 0..(Len(px.coords) - 1) : IsSome(px.coords[index + 1])}
CoordsOf(index) == Unwrap(px.coords[index + 1])

\* C27: the map from buffer index to (i, j) has no underflow, maps the
\* indices of the buffer one to one onto [0, width) x [0, height), row by
\* row with index 0 in the row j = height - 1; a buffer of width or height 0
\* has no index.
C27_IndexBijection ==
    /\ Len(px.coords) = px.image_width * px.image_height
    /\ \A index \in Computed :
           /\ ~CoordsOf(index).j.underflow
           /\ CoordsOf(index).i \in 0..(px.image_width - 1)
           /\ CoordsOf(index).j.value \in 0..(px.image_height - 1)
           /\ index = (px.image_height - 1 - CoordsOf(index).j.value) * px.image_width
                          + CoordsOf(index).i
    /\ \A a, b \in Computed :
           a # b => <<CoordsOf(a).i, CoordsOf(a).j.value>>
                        # <<CoordsOf(b).i, CoordsOf(b).j.value>>
    /\ Computed = 0..(Len(px.coords) - 1)
           => {<<CoordsOf(a).i, CoordsOf(a).j.value>> : a \in Computed}
                  = (0..(px.image_width - 1)) \X (0..(px.image_height - 1))

\* the coordinates of every index of a buffer with more than one row and
\* more columns than rows are computed
C27_Witness ==
    /\ px.image_height >= 2
    /\ px.image_width > px.image_height
    /\ Computed = 0..(Len(px.coords) - 1)

---------------------------------------------------------------------------
(* Hittable::hit and Hittable::bounding_box on a Rectangle, a Cylinder and *)
(* a ConstantMedium                                                        *)

\* rectangles of width 4 and height 6 in each orientation, at the origin
\* and away from it
ShapeRectangles ==
    {Rectangle_new(o, c, 4, 6, "lambertian") :
        o \in {"XY", "YZ", "XZ"}, c \in {Zero3, <<1, 2, 0>>}}

\* the rays sent at the rectangles: along each axis, from a grid of origins
RectangleRays ==
    {Ray_new(<<x, y, z>>, d) :
        x \in {-5, 0, 3}, y \in {-5, 0, 3}, z \in {-5, 0, 3},
        d \in {<<1, 0, 0>>, <<0, 1, 0>>, <<0, 0, 1>>}}

\* cylinders of radius 1 and height 2, at the origin and away from it
ShapeCylinders == {Cylinder_new(c, 1, 2, "metal") : c \in {Zero3, <<0, 1, 0>>}}

\* the rays sent at the cylinders: level, climbing and along the axis, from
\* outside and from the axis, meeting the cylinder or passing it by
CylinderRays ==
    {Ray_new(<<x, y, z>>, d) :
        x \in {-3, 0}, y \in -4..3, z \in {0, 2},
        d \in {<<1, 0, 0>>, <<1, 1, 0>>, <<0, 1, 0>>}}

\* media of density 1 bounded by a unit sphere, at the origin and away from
\* it, with the logarithm drawn in the call
ShapeMedia ==
    {ConstantMedium_new(Sphere_new(c, 1, "lambertian"), "isotropic", 1, ln) :
        c \in {Zero3, <<3, 0, 0>>}, ln \in {0, -1, -3, NInf}}

\* the hittables tested, each with the rays sent at it
ShapeCases ==
    (ShapeRectangles \X RectangleRays) \cup (ShapeCylinders \X CylinderRays)
        \cup (ShapeMedia \X ProbeRays)

\* the windows tested
ShapeWindows == ProbeWindows \cup {<<3, PInf>>}

ShapeNext ==
    \/ /\ ~ht.done
       /\ \E c \in ShapeCases : \E w \in ShapeWindows : Hit(c[1], c[2], w)
    \/ /\ ht.done
       /\ \E t \in BoxTimes : Box(t)

\* C23: for each orientation the box of a Rectangle spans width/2 and
\* height/2 on either side of the center along the two axes of its plane and
\* 0.0001 on either side along the normal, and contains every point where
\* the rectangle is hit (at a parameter that is a number).
C23_RectangleBox ==
    (ht.boxed /\ ht.h.type = "Rectangle") =>
        LET ax == Plane_axes(ht.h.orientation)
            c == ht.h.center.offset_start
            box == Unwrap(ht.box)
        IN  /\ IsSome(ht.box)
            /\ box.minimum[ax[1]] = c[ax[1]] - ht.h.width \div 2
            /\ box.maximum[ax[1]] = c[ax[1]] + ht.h.width \div 2
            /\ box.minimum[ax[2]] = c[ax[2]] - ht.h.height \div 2
            /\ box.maximum[ax[2]] = c[ax[2]] + ht.h.height \div 2
            /\ box.minimum[ax[3]] = c[ax[3]] - Thin
            /\ box.maximum[ax[3]] = c[ax[3]] + Thin
            /\ (IsSome(ht.hit) /\ ~IsNaN(Unwrap(ht.hit).t))
                   => InBox(Unwrap(ht.hit).point, box)

\* C24: every hit of Cylinder::hit_origin (at a parameter that is a number)
\* has a point whose y lies in [-height/2, height/2].
C24_CylinderHeight ==
    (/\ ht.done /\ ht.h.type = "Cylinder" /\ IsSome(ht.hit_origin)
     /\ ~IsNaN(Unwrap(ht.hit_origin).t)) =>
        /\ FLe(FNeg(FDiv(ht.h.height, 2)), Unwrap(ht.hit_origin).point[2])
        /\ FLe(Unwrap(ht.hit_origin).point[2], FDiv(ht.h.height, 2))

\* the parameters at which the ray enters and leaves the boundary where its
\* own Offset puts it
Entry == Hittable_hit(ht.h.boundary, ht.ray, NInf, PInf)
Exit == Hittable_hit(ht.h.boundary, ht.ray, FAdd(Unwrap(Entry).t, Thin), PInf)

\* C30: a ConstantMedium reports a hit only at a t between the entry and the
\* exit of the ray through its boundary, placed by the boundary's Offset
\* once, and inside [t_min, t_max]; only when the distance drawn is at most
\* the distance travelled inside the boundary; and only at a point of the
\* box that bounding_box reports.
C30_MediumInsideBoundary ==
    (ht.done /\ ht.h.type = "ConstantMedium" /\ IsSome(ht.hit)) =>
        /\ IsSome(Entry) /\ IsSome(Exit)
        /\ FLe(FMax(Unwrap(Entry).t, ht.t_min), Unwrap(ht.hit).t)
        /\ FLe(Unwrap(ht.hit).t, FMin(Unwrap(Exit).t, ht.t_max))
        /\ FLe(FMul(ht.h.negative_inverse_density, ht.h.ln),
               FMul(FSub(FMin(Unwrap(Exit).t, ht.t_max),
                         FMax(FMax(Unwrap(Entry).t, ht.t_min), 0)),
                    FSqrt(NormSquared(ht.ray.direction))))
        /\ ht.boxed => IsSome(ht.box) /\ InBox(Unwrap(ht.hit).point, Unwrap(ht.box))

---------------------------------------------------------------------------
(* Specifications.  Each one runs one part of the program; the variables   *)
(* of the other parts stay at Idle.                                        *)

\* scene construction, Bvh::new and hit tests
BvhInit ==
    /\ world \in {HittableList_new(c) : c \in ListCenters}
    /\ bvh = None
    /\ probe = NoProbe
    /\ face = Idle /\ boxes = Idle
    /\ cfg = Idle /\ option = Idle /\ colors = Idle /\ claimed = Idle
    /\ writers = Idle /\ thr = Idle /\ rng = Idle /\ phase = Idle /\ first = Idle
    /\ rc = Idle
    /\ sur = Idle /\ slab = Idle /\ ht = Idle /\ metal = Idle /\ px = Idle

SpecBvh == BvhInit /\ [][BvhNext]_vars

\* HitRecord::from_ray
FaceInit ==
    /\ face = NoFace
    /\ world = Idle /\ bvh = Idle /\ probe = Idle /\ boxes = Idle
    /\ cfg = Idle /\ option = Idle /\ colors = Idle /\ claimed = Idle
    /\ writers = Idle /\ thr = Idle /\ rng = Idle /\ phase = Idle /\ first = Idle
    /\ rc = Idle
    /\ sur = Idle /\ slab = Idle /\ ht = Idle /\ metal = Idle /\ px = Idle

SpecFace == FaceInit /\ [][FaceNext]_vars

\* bounding boxes
BoxInit ==
    /\ boxes = NoBoxes
    /\ world = Idle /\ bvh = Idle /\ probe = Idle /\ face = Idle
    /\ cfg = Idle /\ option = Idle /\ colors = Idle /\ claimed = Idle
    /\ writers = Idle /\ thr = Idle /\ rng = Idle /\ phase = Idle /\ first = Idle
    /\ rc = Idle
    /\ sur = Idle /\ slab = Idle /\ ht = Idle /\ metal = Idle /\ px = Idle

SpecBox == BoxInit /\ [][BoxNext]_vars

\* Raytracer::ray_color
RayColorInit ==
    /\ rc = NoCall
    /\ world = Idle /\ bvh = Idle /\ probe = Idle /\ face = Idle /\ boxes = Idle
    /\ cfg = Idle /\ option = Idle /\ colors = Idle /\ claimed = Idle
    /\ writers = Idle /\ thr = Idle /\ rng = Idle /\ phase = Idle /\ first = Idle
    /\ sur = Idle /\ slab = Idle /\ ht = Idle /\ metal = Idle /\ px = Idle

SpecRayColor == RayColorInit /\ [][RayColorNext]_vars

\* Raytracer::render
RenderInit ==
    /\ cfg \in Raytracers
    /\ option = None /\ colors = <<>> /\ claimed = <<>> /\ writers = <<>>
    /\ thr = [t \in Threads |-> ThreadIdle]
    /\ rng = [t \in Threads |-> Seed]
    /\ phase = "new" /\ first = None
    /\ world = Idle /\ bvh = Idle /\ probe = Idle /\ face = Idle /\ boxes = Idle
    /\ rc = Idle
    /\ sur = Idle /\ slab = Idle /\ ht = Idle /\ metal = Idle /\ px = Idle

SpecRender == RenderInit /\ [][RenderNext]_vars

\* Raytracer::render, twice
SpecRerender == RenderInit /\ [][RerenderNext]_vars

\* Aabb::surrounding
SurInit ==
    /\ sur = NoSur
    /\ slab = Idle /\ ht = Idle /\ metal = Idle /\ px = Idle
    /\ world = Idle /\ bvh = Idle /\ probe = Idle /\ face = Idle /\ boxes = Idle
    /\ cfg = Idle /\ option = Idle /\ colors = Idle /\ claimed = Idle
    /\ writers = Idle /\ thr = Idle /\ rng = Idle /\ phase = Idle /\ first = Idle
    /\ rc = Idle

SpecSur == SurInit /\ [][SurNext]_vars

\* Aabb::hit
SlabInit ==
    /\ slab = NoSlab
    /\ sur = Idle /\ ht = Idle /\ metal = Idle /\ px = Idle
    /\ world = Idle /\ bvh = Idle /\ probe = Idle /\ face = Idle /\ boxes = Idle
    /\ cfg = Idle /\ option = Idle /\ colors = Idle /\ claimed = Idle
    /\ writers = Idle /\ thr = Idle /\ rng = Idle /\ phase = Idle /\ first = Idle
    /\ rc = Idle

SpecSlab == SlabInit /\ [][SlabNext]_vars

\* Hittable::hit and Hittable::bounding_box
HitInit ==
    /\ ht = NoHit
    /\ sur = Idle /\ slab = Idle /\ metal = Idle /\ px = Idle
    /\ world = Idle /\ bvh = Idle /\ probe = Idle /\ face = Idle /\ boxes = Idle
    /\ cfg = Idle /\ option = Idle /\ colors = Idle /\ claimed = Idle
    /\ writers = Idle /\ thr = Idle /\ rng = Idle /\ phase = Idle /\ first = Idle
    /\ rc = Idle

SpecHit == HitInit /\ [][HitNext]_vars

\* the constructors of Metal
MetalInit ==
    /\ metal = NoMetal
    /\ px = Idle
    /\ sur = Idle /\ slab = Idle /\ ht = Idle
    /\ world = Idle /\ bvh = Idle /\ probe = Idle /\ face = Idle /\ boxes = Idle
    /\ cfg = Idle /\ option = Idle /\ colors = Idle /\ claimed = Idle
    /\ writers = Idle /\ thr = Idle /\ rng = Idle /\ phase = Idle /\ first = Idle
    /\ rc = Idle

SpecMetal == MetalInit /\ [][MetalNext]_vars

\* Raytracer::render with an exposure
ShutterInit ==
    /\ cfg \in ShutterRaytracers
    /\ option = None /\ colors = <<>> /\ claimed = <<>> /\ writers = <<>>
    /\ thr = [t \in Threads |-> ThreadIdle]
    /\ rng = [t \in Threads |-> Seed]
    /\ phase = "new" /\ first = None
    /\ world = Idle /\ bvh = Idle /\ probe = Idle /\ face = Idle /\ boxes = Idle
    /\ rc = Idle
    /\ sur = Idle /\ slab = Idle /\ ht = Idle /\ metal = Idle /\ px = Idle

SpecShutter == ShutterInit /\ [][RenderNext]_vars

\* Bvh::new
TreeInit ==
    /\ world = HittableList_new(Zero3)
    /\ bvh = None
    /\ probe = NoProbe
    /\ face = Idle /\ boxes = Idle
    /\ cfg = Idle /\ option = Idle /\ colors = Idle /\ claimed = Idle
    /\ writers = Idle /\ thr = Idle /\ rng = Idle /\ phase = Idle /\ first = Idle
    /\ rc = Idle
    /\ sur = Idle /\ slab = Idle /\ ht = Idle /\ metal = Idle /\ px = Idle

SpecTree == TreeInit /\ [][TreeNext]_vars

\* the pixel coordinates of the closure of render_multithreaded
PixelInit ==
    /\ px \in PixelBuffers
    /\ sur = Idle /\ slab = Idle /\ ht = Idle /\ metal = Idle
    /\ world = Idle /\ bvh = Idle /\ probe = Idle /\ face = Idle /\ boxes = Idle
    /\ cfg = Idle /\ option = Idle /\ colors = Idle /\ claimed = Idle
    /\ writers = Idle /\ thr = Idle /\ rng = Idle /\ phase = Idle /\ first = Idle
    /\ rc = Idle

SpecPixel == PixelInit /\ [][PixelNext]_vars


\* Hittable::hit and Hittable::bounding_box on the shapes
ShapeInit ==
    /\ ht = NoHit
    /\ sur = Idle /\ slab = Idle /\ metal = Idle /\ px = Idle
    /\ world = Idle /\ bvh = Idle /\ probe = Idle /\ face = Idle /\ boxes = Idle
    /\ cfg = Idle /\ option = Idle /\ colors = Idle /\ claimed = Idle
    /\ writers = Idle /\ thr = Idle /\ rng = Idle /\ phase = Idle /\ first = Idle
    /\ rc = Idle

SpecShape == ShapeInit /\ [][ShapeNext]_vars
============================================================================
